---- MODULE Spec2Model ----
(***************************************************************************)
(* Workflow synthesis core of the WorkflowSynthesisEngine:                 *)
(*   cesar_src/models/schemas.py        TaskObject, JobWorkflowSchema      *)
(*   cesar_src/agents/extractor_agent.py ExtractorAgent.run / _fallback    *)
(*   cesar_src/agents/validator_agent.py ValidatorAgent.run                *)
(*   cesar_src/integrations/master_job_tree.py MasterJobTreeEnricher       *)
(*   cesar_src/services/mermaid.py      Mermaid.render                     *)
(*   cesar_src/agents/orchestrator.py   Orchestrator.process_transcript    *)
(*                                                                         *)
(* Optional values (Python None) are sequences of length 0 or 1.           *)
(* Strings that the code takes apart (transcripts, descriptions, roles)    *)
(* are sequences of one-character strings; identifiers are TLA+ strings.   *)
(***************************************************************************)
EXTENDS Integers, Sequences, FiniteSets, TLC

\* ------------------------------------------------------------------ bounds
\* most tasks in a candidate task list given to JobWorkflowSchema
MaxTasks == 2
\* most references (precedes + dependencies + conditional targets) in it
MaxRefs == 3
\* most characters in a transcript given to ExtractorAgent._fallback
MaxTranscriptLen == 5
\* most tasks / references in a task list the LLM answers with, and most
\* characters of a transcript, in a run of Orchestrator.process_transcript
PipeMaxTasks == 1
PipeMaxRefs == 1
PipeTranscriptLen == 1
\* most calls of ValidatorAgent.run on one workflow object
MaxValidations == 2
\* most tasks / references (precedes + conditional targets) of a workflow
\* given to Mermaid.render, and most calls of render on it
RenderMaxTasks == 3
RenderMaxRefs == 2
MaxRenders == 2
\* most characters of a text given to Mermaid._sanitize, and the length of its
\* leading part whose characters vary (the rest is filled with one letter)
MaxSanitizeLen == 123
VariedLen == 3

\* ------------------------------------------------------------- input sets
\* task ids an extraction may supply; the empty string is a legal str value
Ids == {"", "A", "B"}

None == <<>>
Some(x) == <<x>>

\* a description / role text used for tasks that come from the LLM
TextA == <<"a">>

\* characters a transcript is made of: newline, blank, colon, a letter
Chars == {"\n", " ", ":", "a"}

SeqsUpTo(S, n) == UNION {[1..k -> S] : k \in 0..n}

\* ConditionalLogic values: condition text, true target, optional false target
ConditionalLogic ==
  {[condition |-> TextA, true_path_task_id |-> tt, false_path_task_id |-> ff] :
      tt \in Ids, ff \in {None} \cup {Some(i) : i \in Ids}}

\* number of references a conditional_logic field holds
CondRefs(c) == IF c = None THEN 0 ELSE 1 + Len(c[1].false_path_task_id)

\* number of references one task holds
RefCount(t) == Len(t.precedes_tasks) + Len(t.dependencies) + CondRefs(t.conditional_logic)

\* conditional_logic values holding exactly c references
CondWith(c) ==
  IF c = 0 THEN {None} ELSE {Some(x) : x \in {y \in ConditionalLogic : CondRefs(Some(y)) = c}}

\* TaskObject values holding exactly k references
TaskObject(k) ==
  UNION {[task_id : Ids,
          task_description : {TextA},
          role_owner : {TextA},
          precedes_tasks : [1..a -> Ids],
          dependencies : [1..b -> Ids],
          conditional_logic : CondWith(k - a - b),
          required_knowledge : {<<>>},
          required_skill_tags : {<<>>}] :
            a \in 0..k, b \in 0..k}

\* TaskObject(k) for every k the bounds allow, computed once
TaskObjects == [k \in 0..MaxRefs |-> TaskObject(k)]

RECURSIVE TotalRefs(_)
\* number of references a task list holds
TotalRefs(tasks) == IF tasks = <<>> THEN 0 ELSE RefCount(Head(tasks)) + TotalRefs(Tail(tasks))

\* ---------------------------------------------------------------- schemas
TaskIds(tasks) == {tasks[i].task_id : i \in 1..Len(tasks)}

Ok(v) == [ok |-> TRUE, value |-> Some(v), error |-> None]
Err(kind, id) == [ok |-> FALSE, value |-> None, error |-> Some([kind |-> kind, id |-> id])]

\* first index of seq whose element is not in ids, 0 when there is none
FirstMissing(seq, ids) ==
  IF \E j \in 1..Len(seq) : seq[j] \notin ids
  THEN CHOOSE j \in 1..Len(seq) : seq[j] \notin ids /\ \A k \in 1..(j - 1) : seq[k] \in ids
  ELSE 0

\* a reference check that forgets the loop over precedes_tasks
validate_refs_task_deps_only(t, ids) ==
  LET d == FirstMissing(t.dependencies, ids)
  IN  IF d # 0 THEN Some([kind |-> "Dependency", id |-> t.dependencies[d]]) ELSE None

\* the reference check of one task: dependencies first, then precedes_tasks
validate_refs_task(t, ids) ==
  LET d == FirstMissing(t.dependencies, ids)
      n == FirstMissing(t.precedes_tasks, ids)
  IN  IF d # 0 THEN Some([kind |-> "Dependency", id |-> t.dependencies[d]])
      ELSE IF n # 0 THEN Some([kind |-> "Successor", id |-> t.precedes_tasks[n]])
      ELSE None

RECURSIVE validate_refs_from(_, _, _)
validate_refs_from(tasks, i, ids) ==
  IF i > Len(tasks) THEN None
  ELSE LET e == validate_refs_task(tasks[i], ids)
       IN  IF e # None THEN e ELSE validate_refs_from(tasks, i + 1, ids)

\* JobWorkflowSchema._validate_refs: None, or the first ValueError raised
validate_refs(tasks) == validate_refs_from(tasks, 1, TaskIds(tasks))

\* Python truthiness of an Optional[str]: None and "" are both falsy
Truthy(opt) == opt # None /\ opt[1] # ""

\* an edge set in which a dependency is an edge too: dependency -> task
TaskEdgesWithDependencies(t) ==
  {<<t.task_id, t.precedes_tasks[j]>> : j \in 1..Len(t.precedes_tasks)}
  \cup {<<t.dependencies[j], t.task_id>> : j \in 1..Len(t.dependencies)}
  \cup (IF t.conditional_logic # None
        THEN {<<t.task_id, t.conditional_logic[1].true_path_task_id>>}
             \cup (IF Truthy(t.conditional_logic[1].false_path_task_id)
                   THEN {<<t.task_id, t.conditional_logic[1].false_path_task_id[1]>>}
                   ELSE {})
        ELSE {})

\* edges that _validate_dag adds for one task
TaskEdges(t) ==
  {<<t.task_id, t.precedes_tasks[j]>> : j \in 1..Len(t.precedes_tasks)}
  \cup (IF t.conditional_logic # None
        THEN {<<t.task_id, t.conditional_logic[1].true_path_task_id>>}
             \cup (IF Truthy(t.conditional_logic[1].false_path_task_id)
                   THEN {<<t.task_id, t.conditional_logic[1].false_path_task_id[1]>>}
                   ELSE {})
        ELSE {})

\* a graph built without the add_node loop: its nodes are the ends of its edges
DiGraphWithoutAddNode(tasks) ==
  LET E == UNION {TaskEdges(tasks[i]) : i \in 1..Len(tasks)}
  IN  [nodes |-> {e[1] : e \in E} \cup {e[2] : e \in E}, edges |-> E]

\* the networkx DiGraph built by _validate_dag; add_edge also adds its end nodes
DiGraph(tasks) ==
  LET E == UNION {TaskEdges(tasks[i]) : i \in 1..Len(tasks)}
  IN  [nodes |-> TaskIds(tasks) \cup {e[1] : e \in E} \cup {e[2] : e \in E}, edges |-> E]

in_degree(G, n) == Cardinality({e \in G.edges : e[2] = n})

RECURSIVE is_directed_acyclic_graph(_)
\* networkx.is_directed_acyclic_graph: a topological order exists
is_directed_acyclic_graph(G) ==
  IF G.nodes = {} THEN TRUE
  ELSE LET free == {n \in G.nodes : in_degree(G, n) = 0}
       IN  IF free = {} THEN FALSE
           ELSE is_directed_acyclic_graph(
                  [nodes |-> G.nodes \ free,
                   edges |-> {e \in G.edges : e[1] \notin free}])

\* a model validator that looks for a root without the cycle check
validate_dag_without_cycle_check(tasks) ==
  LET G == DiGraph(tasks)
      roots == {n \in G.nodes : in_degree(G, n) = 0}
  IN  IF roots = {} THEN Some([kind |-> "NoRoot", id |-> ""])
      ELSE None

\* JobWorkflowSchema._validate_dag: None, or the ValueError raised
validate_dag(tasks) ==
  LET G == DiGraph(tasks)
      roots == {n \in G.nodes : in_degree(G, n) = 0}
  IN  IF ~is_directed_acyclic_graph(G) THEN Some([kind |-> "Cycle", id |-> ""])
      ELSE IF roots = {} THEN Some([kind |-> "NoRoot", id |-> ""])
      ELSE None

\* JobWorkflowSchema(workflow_name=name, tasks=tasks): the field validator
\* runs first, the model validator only when it passed
JobWorkflowSchema(name, tasks) ==
  LET r == validate_refs(tasks)
      d == validate_dag(tasks)
  IN  IF r # None THEN Err(r[1].kind, r[1].id)
      ELSE IF d # None THEN Err(d[1].kind, d[1].id)
      ELSE Ok([workflow_name |-> name, tasks |-> tasks])

\* -------------------------------------------------------- extractor agent
RECURSIVE splitlines(_)
\* str.splitlines(): the pieces between newlines, no empty piece after a final one
splitlines(s) ==
  IF s = <<>> THEN <<>>
  ELSE IF \E i \in 1..Len(s) : s[i] = "\n"
       THEN LET i == CHOOSE j \in 1..Len(s) : s[j] = "\n" /\ \A k \in 1..(j - 1) : s[k] # "\n"
            IN  <<SubSeq(s, 1, i - 1)>> \o splitlines(SubSeq(s, i + 1, Len(s)))
       ELSE <<s>>

RECURSIVE lstrip(_)
lstrip(s) == IF s # <<>> /\ Head(s) \in {" ", "\n"} THEN lstrip(Tail(s)) ELSE s

RECURSIVE rstrip(_)
rstrip(s) ==
  IF s # <<>> /\ s[Len(s)] \in {" ", "\n"} THEN rstrip(SubSeq(s, 1, Len(s) - 1)) ELSE s

\* str.strip()
strip(s) == rstrip(lstrip(s))

\* Python's  x or default  on strings
OrElse(s, default) == IF s = <<>> THEN default ELSE s

Unknown == <<"U", "n", "k", "n", "o", "w", "n">>
Unavailable ==
  <<"T", "a", "s", "k", " ", "d", "e", "s", "c", "r", "i", "p", "t", "i", "o", "n", " ",
    "u", "n", "a", "v", "a", "i", "l", "a", "b", "l", "e">>
NoSteps ==
  <<"N", "o", " ", "a", "c", "t", "i", "o", "n", "a", "b", "l", "e", " ",
    "s", "t", "e", "p", "s", " ", "d", "e", "t", "e", "c", "t", "e", "d">>

\* line.split(":", 1) of a line that contains a colon
SplitColon(line) ==
  LET i == CHOOSE j \in 1..Len(line) : line[j] = ":" /\ \A k \in 1..(j - 1) : line[k] # ":"
  IN  [speaker |-> SubSeq(line, 1, i - 1), content |-> SubSeq(line, i + 1, Len(line))]

\* [ln.strip() for ln in transcript.splitlines() if ln.strip()]
FallbackLines(transcript) ==
  LET raw == splitlines(transcript)
  IN  SelectSeq([i \in 1..Len(raw) |-> strip(raw[i])], LAMBDA ln : ln # <<>>)

\* f"T{idx}"
TName(idx) == "T" \o ToString(idx)

\* precedes_tasks of the idx-th fallback task, with the comparison  idx <= len(lines)
FallbackPrecedesOffByOne(idx, n) == IF idx <= n THEN <<TName(idx + 1)>> ELSE <<>>

\* precedes_tasks of the idx-th of n fallback tasks
FallbackPrecedes(idx, n) == IF idx < n THEN <<TName(idx + 1)>> ELSE <<>>

\* the TaskObject the fallback builds for the idx-th of n lines
FallbackTask(line, idx, n) ==
  LET colon == \E j \in 1..Len(line) : line[j] = ":"
      parts == SplitColon(line)
  IN  [task_id |-> TName(idx),
       task_description |-> IF colon THEN OrElse(strip(parts.content), Unavailable) ELSE line,
       role_owner |-> IF colon THEN OrElse(strip(parts.speaker), Unknown) ELSE Unknown,
       precedes_tasks |-> FallbackPrecedes(idx, n),
       dependencies |-> <<>>,
       conditional_logic |-> None,
       required_knowledge |-> <<>>,
       required_skill_tags |-> <<>>]

\* ExtractorAgent._fallback(transcript, error): the result of the
\* JobWorkflowSchema constructor it ends with; error is None or Some(type name)
fallback(transcript, error) ==
  LET lines == FallbackLines(transcript)
      built_tasks == [i \in 1..Len(lines) |-> FallbackTask(lines[i], i, Len(lines))]
      tasks == IF built_tasks = <<>>
               THEN <<[task_id |-> "T1", task_description |-> NoSteps, role_owner |-> Unknown,
                       precedes_tasks |-> <<>>, dependencies |-> <<>>, conditional_logic |-> None,
                       required_knowledge |-> <<>>, required_skill_tags |-> <<>>]>>
               ELSE built_tasks
      name_suffix == IF error # None THEN " (fallback: " \o error[1] \o ")" ELSE ""
  IN  JobWorkflowSchema("Fallback Workflow" \o name_suffix, tasks)

\* --------------------------------------------------------------- enricher
\* rows of the API catalog file (config/apis.csv) read by _load_api_catalog
ApiCatalog == <<[name |-> "api1", endpoint |-> "/v1/a"]>>

\* ids of the entries of _load_canonical_knowledge
KnowledgeBase == <<"APQC-PCF", "ONET-TASK-ANALYSIS", "ISO-9001", "NIST-CSF">>

\* what _recommend_apis can return for a text: the catalog entries scoring
\* at least 65, here none or the one entry of the catalog
ApiRecommendations == {<<>>} \cup {<<ApiCatalog[i]>> : i \in 1..Len(ApiCatalog)}

\* what _recommend_knowledge can return for a text: the entries of the
\* knowledge base scoring at least 70, here none or one of them
KnowledgeRecommendations ==
  {<<>>} \cup {<<[id |-> KnowledgeBase[i], description |-> KnowledgeBase[i]]>> : i \in 1..Len(KnowledgeBase)}

\* SkillItem(id=item["name"], description=item["endpoint"]) for item in recommendations
SkillItems(recs) == [i \in 1..Len(recs) |-> [id |-> recs[i].name, description |-> recs[i].endpoint]]

\* the places where a call made by enrich can raise while task i is handled:
\* in _recommend_apis (nothing appended yet) or in _recommend_knowledge (skills appended)
EnrichFailures(tasks) ==
  {[task |-> i, at |-> w] : i \in 1..Len(tasks), w \in {"apis", "knowledge"}}

\* a loop body that also makes the task its own successor
EnrichTaskRewiring(t, rec, skills, knowledge) ==
  [t EXCEPT !.required_skill_tags = @ \o (IF skills THEN SkillItems(rec.apis) ELSE <<>>),
            !.required_knowledge = @ \o (IF knowledge THEN rec.knowledge ELSE <<>>),
            !.precedes_tasks = @ \o <<t.task_id>>]

\* the body of the loop of MasterJobTreeEnricher.enrich for one task; skills
\* and knowledge say which of the two extend(...) calls were reached
EnrichTask(t, rec, skills, knowledge) ==
  [t EXCEPT !.required_skill_tags = @ \o (IF skills THEN SkillItems(rec.apis) ELSE <<>>),
            !.required_knowledge = @ \o (IF knowledge THEN rec.knowledge ELSE <<>>)]

\* MasterJobTreeEnricher.enrich: the tasks of the workflow object afterwards
\* (it is mutated in place); recs maps a description to its recommendations,
\* fail is None or Some(place where a call raised)
enrich(tasks, recs, fail) ==
  [i \in 1..Len(tasks) |->
     LET rec == recs[tasks[i].task_description]
     IN  IF fail = None \/ i < fail[1].task THEN EnrichTask(tasks[i], rec, TRUE, TRUE)
         ELSE IF i = fail[1].task THEN EnrichTask(tasks[i], rec, fail[1].at = "knowledge", FALSE)
         ELSE tasks[i]]

\* ---------------------------------------------------------------- mermaid
\* a _sanitize without the replace of the double quote
sanitize_keeping_quotes(text, max_len) ==
  LET t == [i \in 1..Len(text) |-> IF text[i] = "\n" THEN " " ELSE text[i]]
  IN  IF Len(t) > max_len THEN SubSeq(t, 1, max_len - 1) \o <<".", ".", ".">> ELSE t

\* Mermaid._sanitize(text, max_len)
sanitize(text, max_len) ==
  LET t == [i \in 1..Len(text) |->
              IF text[i] = "\n" THEN " " ELSE IF text[i] = "\"" THEN "'" ELSE text[i]]
  IN  IF Len(t) > max_len THEN SubSeq(t, 1, max_len - 1) \o <<".", ".", ".">> ELSE t

DescriptionMaxLen == 120
ConditionMaxLen == 60

RoleUnknown == <<"r", "o", "l", "e", "?">>

NodeLine(t) ==
  [kind |-> "node", src |-> t.task_id, dst |-> "",
   label |-> sanitize(t.task_description, DescriptionMaxLen),
   role |-> OrElse(t.role_owner, RoleUnknown)]

EdgeLines(t) ==
  [j \in 1..Len(t.precedes_tasks) |->
     [kind |-> "edge", src |-> t.task_id, dst |-> t.precedes_tasks[j], label |-> <<>>, role |-> <<>>]]
  \o (IF t.conditional_logic # None
      THEN <<[kind |-> "cond", src |-> t.task_id, dst |-> t.conditional_logic[1].true_path_task_id,
              label |-> sanitize(t.conditional_logic[1].condition, ConditionMaxLen), role |-> <<>>]>>
           \o (IF Truthy(t.conditional_logic[1].false_path_task_id)
               THEN <<[kind |-> "cond", src |-> t.task_id,
                       dst |-> t.conditional_logic[1].false_path_task_id[1],
                       label |-> <<"E", "l", "s", "e">>, role |-> <<>>]>>
               ELSE <<>>)
      ELSE <<>>)

RECURSIVE Flatten(_)
Flatten(ss) == IF ss = <<>> THEN <<>> ELSE Head(ss) \o Flatten(Tail(ss))

\* a render whose style annotation marks every task, not only the decision tasks
render_marking_every_task(wf) ==
  LET tasks == wf.tasks
      dec == SelectSeq(tasks, LAMBDA t : t.conditional_logic # None)
  IN  <<[kind |-> "header", src |-> "", dst |-> "", label |-> <<>>, role |-> <<>>]>>
      \o [i \in 1..Len(tasks) |-> NodeLine(tasks[i])]
      \o Flatten([i \in 1..Len(tasks) |-> EdgeLines(tasks[i])])
      \o (IF dec # <<>>
          THEN <<[kind |-> "classDef", src |-> "", dst |-> "", label |-> <<>>, role |-> <<>>]>>
               \o [i \in 1..Len(tasks) |->
                     [kind |-> "class", src |-> tasks[i].task_id, dst |-> "", label |-> <<>>, role |-> <<>>]]
          ELSE <<>>)

\* Mermaid.render(workflow): the lines joined by "\n", as records
render(wf) ==
  LET tasks == wf.tasks
      dec == SelectSeq(tasks, LAMBDA t : t.conditional_logic # None)
  IN  <<[kind |-> "header", src |-> "", dst |-> "", label |-> <<>>, role |-> <<>>]>>
      \o [i \in 1..Len(tasks) |-> NodeLine(tasks[i])]
      \o Flatten([i \in 1..Len(tasks) |-> EdgeLines(tasks[i])])
      \o (IF dec # <<>>
          THEN <<[kind |-> "classDef", src |-> "", dst |-> "", label |-> <<>>, role |-> <<>>]>>
               \o [i \in 1..Len(dec) |->
                     [kind |-> "class", src |-> dec[i].task_id, dst |-> "", label |-> <<>>, role |-> <<>>]]
          ELSE <<>>)

\* the f-string of one entry of lines, as a sequence of pieces of text: the
\* characters of labels and roles one by one, identifiers and the fixed parts
\* of the template as one piece each (a newline is always a piece of its own)
LineText(l) ==
  CASE l.kind = "header" -> <<"graph TD">>
    [] l.kind = "node" ->
         <<"    ", l.src, "([\"">> \o l.label \o <<"\n", "<sub>">> \o l.role \o <<"</sub>\"])">>
    [] l.kind = "edge" -> <<"    ", l.src, " --> ", l.dst>>
    [] l.kind = "cond" -> <<"    ", l.src, " -- \"">> \o l.label \o <<"\" --> ", l.dst>>
    [] l.kind = "classDef" -> <<"    classDef decisionNode fill:#ffe4b5,stroke:#333;">>
    [] l.kind = "class" -> <<"    class ", l.src, " decisionNode;">>

RECURSIVE JoinLines(_)
\* "\n".join(lines)
JoinLines(ls) ==
  IF ls = <<>> THEN <<>>
  ELSE IF Len(ls) = 1 THEN Head(ls)
  ELSE Head(ls) \o <<"\n">> \o JoinLines(Tail(ls))

\* a render that walks the tasks from the last to the first
render_str_reversed(wf) ==
  LET rev == [i \in 1..Len(wf.tasks) |-> wf.tasks[Len(wf.tasks) + 1 - i]]
      ls == render([wf EXCEPT !.tasks = rev])
  IN  JoinLines([i \in 1..Len(ls) |-> LineText(ls[i])])

\* Mermaid.render(workflow): the string it returns
render_str(wf) ==
  LET ls == render(wf)
  IN  JoinLines([i \in 1..Len(ls) |-> LineText(ls[i])])

\* ------------------------------------------------------------ orchestrator
\* ValidatorAgent.run: JobWorkflowSchema(**wf.model_dump()), None or the error raised
validator_run(wf) == JobWorkflowSchema(wf.workflow_name, wf.tasks).error

\* the order of the stages of process_transcript when render comes first
ThenRenderFirst(stage) ==
  CASE stage = "extract" -> "render"
    [] stage = "render" -> "validate"
    [] stage = "validate" -> "enrich"
    [] stage = "enrich" -> "revalidate"
    [] stage = "revalidate" -> "handoff"
    [] stage = "handoff" -> "learn"
    [] stage = "learn" -> "done"

\* the statement order of process_transcript: the stage that follows a stage
Then(stage) ==
  CASE stage = "extract" -> "validate"
    [] stage = "validate" -> "enrich"
    [] stage = "enrich" -> "revalidate"
    [] stage = "revalidate" -> "render"
    [] stage = "render" -> "handoff"
    [] stage = "handoff" -> "learn"
    [] stage = "learn" -> "done"

\* how a collaborator object behaves in a run: not configured (None), its call
\* returns, or its call raises
Behaviours == {"none", "ok", "raises"}

\* a _persist_workflow without its try/except: None stands for the exception
persist_workflow_uncaught(repo_behaviour, workflow_id) ==
  IF repo_behaviour = "none" THEN Some("workflow_unpersisted")
  ELSE IF repo_behaviour = "ok" THEN Some(workflow_id)
  ELSE None

\* Orchestrator._persist_workflow: the identifier it returns
persist_workflow(repo_behaviour, workflow_id) ==
  IF repo_behaviour = "none" THEN Some("workflow_unpersisted")
  ELSE IF repo_behaviour = "ok" THEN Some(workflow_id)
  ELSE Some("workflow_persist_error")

\* f"wf-{uuid4().hex}" of the run
RunIdentifier == "wf-1"

\* ValueError kinds raised by the validators of JobWorkflowSchema
GraphErrorKinds == {"Dependency", "Successor", "Cycle", "NoRoot"}

\* ------------------------------------------------------------------ state
VARIABLES
  tasks_in,   \* the task list handed to the JobWorkflowSchema constructor
  built,      \* None before construction, then Some(result of the constructor)
  transcript, \* the transcript text
  fb,         \* None, then Some(result of ExtractorAgent._fallback)
  pc,         \* the statement process_transcript has reached
  telemetry,  \* behaviour of self.telemetry in this run
  telemetry_log,       \* agents whose interaction the telemetry object logged
  extract_error,       \* None, or Some(exception caught in ExtractorAgent.run)
  workflow,            \* None, or Some(the JobWorkflowSchema object named workflow)
  pre_enrich,          \* None, or Some(that object's value when enrich was called)
  mermaid,             \* None, or Some(rendered diagram)
  autogen_script_path, \* None, or Some(path)
  skill_links,
  automation_links,
  repo,       \* the records self.repo stored
  result,     \* None, or Some(the dict process_transcript returned)
  failure,    \* None, or Some(exception process_transcript raised to its caller)
  stages,     \* the stages run so far, in order
  raised,     \* the collaborators whose call raised in this run
  checks,     \* the calls of ValidatorAgent.run made on the workflow: what each was given and how it ended
  rendered,   \* the calls of Mermaid.render made on the workflow: what each was given and returned
  sanitize_in,  \* the text handed to Mermaid._sanitize
  sanitize_out, \* None, or Some(max_len and result of Mermaid._sanitize)
  made,       \* the TaskObject(...) constructions made: the task_id given and the object built
  enrich_in,  \* the tasks of the workflow object handed to MasterJobTreeEnricher.enrich
  enriched,   \* None, or Some(the tasks of that object before and after the call)
  frames,     \* per concurrent process_transcript run: its position and its local variables
  store,      \* the records the repository shared by the concurrent runs holds
  catalog,    \* what the enricher shared by the concurrent runs recommends
  limit,      \* _rate_limit: RATE_LIMIT_PER_MIN as parsed at import
  now,        \* the time datetime.utcnow() returns
  requests,   \* _limiter._requests: identifier -> list of timestamps
  rate_log,   \* the requests handled by enforce_rate_limit: identifier, time, outcome
  exec_pc,    \* the statement the thread running ScriptExecutor.execute has reached
  cancel_pc,  \* the statement the thread running cancel_execution has reached
  status,     \* ScriptExecutor.status
  process,    \* ScriptExecutor.process and the state of the child process
  exit_code,  \* the local exit_code of execute
  exec_result,        \* None, or Some(the ExecutionResult execute returned)
  execution_history,  \* LauncherEngine.execution_history: the status of each record
  active_executions,  \* whether the execution id is in LauncherEngine.active_executions
  cancel_at   \* where execute stood when cancel found the process running

schemaVars == <<tasks_in, built>>
fallbackVars == <<transcript, fb>>
pipeVars == <<pc, telemetry, telemetry_log, extract_error, workflow, pre_enrich, mermaid,
              autogen_script_path, skill_links, automation_links, repo, result, failure,
              stages, raised>>
callVars == <<checks, rendered, sanitize_in, sanitize_out>>
taskVars == <<made>>
enrichVars == <<enrich_in, enriched>>
runVars == <<frames, store, catalog>>
rateVars == <<limit, now, requests, rate_log>>
execVars == <<exec_pc, cancel_pc, status, process, exit_code, exec_result, execution_history,
              active_executions, cancel_at>>
moreVars == <<taskVars, enrichVars, runVars, rateVars, execVars>>
oldVars == <<schemaVars, fallbackVars, pipeVars, callVars>>
vars == <<tasks_in, built, transcript, fb, pc, telemetry, telemetry_log, extract_error,
          workflow, pre_enrich, mermaid, autogen_script_path, skill_links, automation_links,
          repo, result, failure, stages, raised, checks, rendered, sanitize_in, sanitize_out,
          made, enrich_in, enriched, frames, store, catalog, limit, now, requests, rate_log,
          exec_pc, cancel_pc, status, process, exit_code, exec_result, execution_history,
          active_executions, cancel_at>>

SchemaIdle == tasks_in = <<>> /\ built = None
FallbackIdle == transcript = <<>> /\ fb = None

\* the locals of process_transcript before its first statement
PipeStart ==
  /\ telemetry_log = <<>>
  /\ extract_error = None
  /\ workflow = None
  /\ pre_enrich = None
  /\ mermaid = None
  /\ autogen_script_path = None
  /\ skill_links = <<>>
  /\ automation_links = <<>>
  /\ repo = <<>>
  /\ result = None
  /\ failure = None
  /\ stages = <<>>
  /\ raised = {}

PipeIdle == pc = "idle" /\ telemetry = "none" /\ PipeStart

\* no call of the validator agent or of the renderer made yet
CallsIdle == checks = <<>> /\ rendered = <<>> /\ sanitize_in = <<>> /\ sanitize_out = None

\* no TaskObject constructed on its own yet
TaskIdle == made = <<>>

\* MasterJobTreeEnricher.enrich not called on its own yet
EnrichIdle == enrich_in = <<>> /\ enriched = None

\* no concurrent runs
RunsIdle == frames = <<>> /\ store = <<>> /\ catalog = None

\* the rate limiter not configured and unused
RateIdle == limit = 0 /\ now = 0 /\ requests = <<>> /\ rate_log = <<>>

\* no ScriptExecutor
ExecIdle ==
  /\ exec_pc = "idle"
  /\ cancel_pc = "idle"
  /\ status = "pending"
  /\ process = None
  /\ exit_code = None
  /\ exec_result = None
  /\ execution_history = <<>>
  /\ active_executions = FALSE
  /\ cancel_at = None

MoreIdle == TaskIdle /\ EnrichIdle /\ RunsIdle /\ RateIdle /\ ExecIdle

\* ------------------------------------------- schema construction (SpecSchema)
InitSchema ==
  /\ tasks_in = <<>>
  /\ built = None
  /\ FallbackIdle
  /\ PipeIdle
  /\ CallsIdle
  /\ MoreIdle

\* the caller builds one more TaskObject(...) and appends it to its task list
AddTask ==
  /\ built = None
  /\ checks = <<>>
  /\ Len(tasks_in) < MaxTasks
  /\ \E k \in 0..(MaxRefs - TotalRefs(tasks_in)) :
       \E t \in TaskObjects[k] : tasks_in' = Append(tasks_in, t)
  /\ UNCHANGED <<built, fallbackVars, pipeVars, moreVars, callVars>>

\* JobWorkflowSchema(workflow_name="WF", tasks=tasks_in)
Construct ==
  /\ built = None
  /\ checks = <<>>
  /\ built' = Some(JobWorkflowSchema("WF", tasks_in))
  /\ UNCHANGED <<tasks_in, fallbackVars, pipeVars, moreVars, callVars>>

\* the workflow object whose tasks field holds tasks_in (built by the caller,
\* or changed by it after construction)
WorkflowObject == [workflow_name |-> "WF", tasks |-> tasks_in]

\* a validator that repairs the object it is given: it drops the precedes
\* entries that name no task
ValidatorRunRepairing ==
  /\ built = None
  /\ Len(checks) < MaxValidations
  /\ checks' = Append(checks, [workflow |-> WorkflowObject, outcome |-> validator_run(WorkflowObject)])
  /\ tasks_in' = [i \in 1..Len(tasks_in) |->
                    [tasks_in[i] EXCEPT !.precedes_tasks =
                        SelectSeq(@, LAMBDA n : n \in TaskIds(tasks_in))]]
  /\ UNCHANGED <<built, fallbackVars, pipeVars, moreVars, rendered, sanitize_in, sanitize_out>>

\* await ValidatorAgent().run({"workflow": wf}): the constructor is given
\* wf.model_dump(), a copy, so wf itself is left as it was
ValidatorRun ==
  /\ built = None
  /\ Len(checks) < MaxValidations
  /\ checks' = Append(checks, [workflow |-> WorkflowObject, outcome |-> validator_run(WorkflowObject)])
  /\ UNCHANGED <<tasks_in, built, fallbackVars, pipeVars, moreVars, rendered, sanitize_in, sanitize_out>>

NextSchema == AddTask \/ Construct \/ ValidatorRun

SpecSchema == InitSchema /\ [][NextSchema]_vars

\* ------------------------------------------ rule-based fallback (SpecFallback)
\* exception types ExtractorAgent.run can hand to the fallback
ErrorTypes == {"LLMRouterError", "JSONDecodeError", "ValueError", "ValidationError"}

InitFallback ==
  /\ transcript = <<>>
  /\ fb = None
  /\ SchemaIdle
  /\ PipeIdle
  /\ CallsIdle
  /\ MoreIdle

\* the transcript text grows by one character
TypeChar ==
  /\ fb = None
  /\ Len(transcript) < MaxTranscriptLen
  /\ \E c \in Chars : transcript' = Append(transcript, c)
  /\ UNCHANGED <<fb, schemaVars, pipeVars, moreVars, callVars>>

\* ExtractorAgent._fallback(transcript, error=exc)
CallFallback ==
  /\ fb = None
  /\ \E e \in {None} \cup {Some(x) : x \in ErrorTypes} : fb' = Some(fallback(transcript, e))
  /\ UNCHANGED <<transcript, schemaVars, pipeVars, moreVars, callVars>>

NextFallback == TypeChar \/ CallFallback

SpecFallback == InitFallback /\ [][NextFallback]_vars

\* ------------------------------------------------ Mermaid.render (SpecRender)
\* texts of a task given to render: the empty one, and one with a double
\* quote, a newline and a letter
RenderTexts == {<<>>, <<"\"", "\n", "a">>}

\* the ids of the tasks of such a workflow: T1, T2, ...
RenderIds == {TName(i) : i \in 1..RenderMaxTasks}

\* conditional_logic values holding exactly c references, with condition txt
RenderConditional(c, txt) ==
  IF c = 0 THEN {None}
  ELSE IF c = 1
  THEN {Some([condition |-> txt, true_path_task_id |-> tt, false_path_task_id |-> None]) :
          tt \in RenderIds}
  ELSE IF c = 2
  THEN {Some([condition |-> txt, true_path_task_id |-> tt, false_path_task_id |-> Some(ff)]) :
          tt \in RenderIds, ff \in RenderIds \cup {""}}
  ELSE {}

\* TaskObject values for the idx-th task holding exactly k references; one
\* text serves as description, role and condition
RenderTask(idx, k) ==
  UNION {UNION {[task_id : {TName(idx)},
                 task_description : {txt},
                 role_owner : {txt},
                 precedes_tasks : [1..a -> RenderIds],
                 dependencies : {<<>>},
                 conditional_logic : RenderConditional(k - a, txt),
                 required_knowledge : {<<>>},
                 required_skill_tags : {<<>>}] : a \in 0..k} : txt \in RenderTexts}

InitRender ==
  /\ tasks_in = <<>>
  /\ built = None
  /\ FallbackIdle
  /\ PipeIdle
  /\ CallsIdle
  /\ MoreIdle

\* the caller appends one more TaskObject(...) to the tasks of the workflow
AddRenderTask ==
  /\ checks = <<>>
  /\ rendered = <<>>
  /\ Len(tasks_in) < RenderMaxTasks
  /\ \E k \in 0..(RenderMaxRefs - TotalRefs(tasks_in)) :
       \E t \in RenderTask(Len(tasks_in) + 1, k) : tasks_in' = Append(tasks_in, t)
  /\ UNCHANGED <<built, fallbackVars, pipeVars, moreVars, checks, rendered, sanitize_in, sanitize_out>>

\* Mermaid.render(wf) on a workflow whose last validation passed
RenderCall ==
  /\ checks # <<>>
  /\ checks[Len(checks)].outcome = None
  /\ Len(rendered) < MaxRenders
  /\ rendered' = Append(rendered, [workflow |-> WorkflowObject, mermaid |-> render_str(WorkflowObject)])
  /\ UNCHANGED <<tasks_in, built, fallbackVars, pipeVars, moreVars, checks, sanitize_in, sanitize_out>>

NextRender == AddRenderTask \/ ValidatorRun \/ RenderCall

SpecRender == InitRender /\ [][NextRender]_vars

\* -------------------------------------------- Mermaid._sanitize (SpecSanitize)
\* characters of a text given to _sanitize: a letter, a double quote, a
\* newline, a full stop
LabelChars == {"a", "\"", "\n", "."}

\* the two max_len values _sanitize is called with by render
MaxLens == {DescriptionMaxLen, ConditionMaxLen}

InitSanitize ==
  /\ sanitize_in = <<>>
  /\ sanitize_out = None
  /\ checks = <<>>
  /\ rendered = <<>>
  /\ SchemaIdle
  /\ FallbackIdle
  /\ PipeIdle
  /\ MoreIdle

\* the text grows by one character
TypeLabelChar ==
  /\ sanitize_out = None
  /\ Len(sanitize_in) < MaxSanitizeLen
  /\ \E c \in (IF Len(sanitize_in) < VariedLen THEN LabelChars ELSE {"a"}) :
       sanitize_in' = Append(sanitize_in, c)
  /\ UNCHANGED <<sanitize_out, checks, rendered, schemaVars, fallbackVars, pipeVars, moreVars>>

\* cls._sanitize(t.task_description) or cls._sanitize(c.condition, 60)
SanitizeCall ==
  /\ sanitize_out = None
  /\ \E m \in MaxLens :
       sanitize_out' = Some([max_len |-> m, out |-> sanitize(sanitize_in, m)])
  /\ UNCHANGED <<sanitize_in, checks, rendered, schemaVars, fallbackVars, pipeVars, moreVars>>

NextSanitize == TypeLabelChar \/ SanitizeCall

SpecSanitize == InitSanitize /\ [][NextSanitize]_vars

\* ------------------------------------- Orchestrator.process_transcript (Spec)
RECURSIVE TaskLists(_, _)
\* task lists of at most n tasks holding at most r references in total
TaskLists(n, r) ==
  IF n = 0 THEN {<<>>}
  ELSE {<<>>} \cup
       UNION {LET rests == TaskLists(n - 1, r - k)
              IN  {<<t>> \o rest : t \in TaskObjects[k], rest \in rests} : k \in 0..r}

\* what self._router.chat and the parsing of its answer can give: an exception
\* of the router, text that is not JSON, JSON of the wrong shape, or the JSON
\* of a workflow with some task list
LLMResponses ==
  {[kind |-> k, tasks |-> <<>>] : k \in {"LLMRouterError", "JSONDecodeError", "ValueError", "Shape"}}
  \cup {[kind |-> "json", tasks |-> ts] : ts \in TaskLists(PipeMaxTasks, PipeMaxRefs)}

\* the exception ExtractorAgent.run catches for a response, None when there is none
ExtractionError(resp) ==
  IF resp.kind = "json"
  THEN LET r == JobWorkflowSchema("WF", resp.tasks)
       IN  IF r.ok THEN None
           ELSE Some([type |-> "ValidationError", kind |-> r.error[1].kind, id |-> r.error[1].id])
  ELSE IF resp.kind = "Shape" THEN Some([type |-> "ValidationError", kind |-> "Shape", id |-> ""])
  ELSE Some([type |-> resp.kind, kind |-> "", id |-> ""])

\* ExtractorAgent.run: the JobWorkflowSchema result it returns as "workflow"
\* (an error result when the fallback itself raises)
extractor_run(text, resp) ==
  LET e == ExtractionError(resp)
  IN  IF e = None THEN JobWorkflowSchema("WF", resp.tasks) ELSE fallback(text, Some(e[1].type))

\* self.telemetry.log_interaction(agent=...) inside try/except
Logged(agent) == IF telemetry = "ok" THEN Append(telemetry_log, agent) ELSE telemetry_log
AfterLog(r) == IF telemetry = "raises" THEN r \cup {"telemetry"} ELSE r

Init ==
  /\ pc = "extract"
  /\ transcript \in SeqsUpTo(Chars, PipeTranscriptLen)
  /\ telemetry \in Behaviours
  /\ PipeStart
  /\ fb = None
  /\ SchemaIdle
  /\ CallsIdle
  /\ MoreIdle

\* lines 57-69: await self.extractor.run(...), then the telemetry record
Extract ==
  /\ pc = "extract"
  /\ \E resp \in LLMResponses :
       LET r == extractor_run(transcript, resp)
       IN  /\ extract_error' = ExtractionError(resp)
           /\ IF r.ok
              THEN /\ workflow' = r.value
                   /\ telemetry_log' = Logged("extractor")
                   /\ raised' = AfterLog(raised)
                   /\ pc' = Then("extract")
                   /\ failure' = None
              ELSE /\ workflow' = None
                   /\ failure' = r.error
                   /\ pc' = "aborted"
                   /\ UNCHANGED <<telemetry_log, raised>>
  /\ stages' = Append(stages, "extract")
  /\ UNCHANGED <<transcript, telemetry, pre_enrich, mermaid, autogen_script_path, skill_links,
                 automation_links, repo, result, fb, schemaVars, callVars, moreVars>>

\* lines 70-81: await self.validator.run(...), not inside a try
Validate ==
  /\ pc = "validate"
  /\ LET e == validator_run(workflow[1])
     IN  IF e = None
         THEN /\ telemetry_log' = Logged("validator")
              /\ raised' = AfterLog(raised)
              /\ pc' = Then("validate")
              /\ failure' = None
         ELSE /\ failure' = e
              /\ pc' = "aborted"
              /\ UNCHANGED <<telemetry_log, raised>>
  /\ stages' = Append(stages, "validate")
  /\ UNCHANGED <<transcript, telemetry, extract_error, workflow, pre_enrich, mermaid,
                 autogen_script_path, skill_links, automation_links, repo, result, fb, schemaVars, callVars, moreVars>>

\* the recommendations the enricher has for the descriptions of the tasks
Recommendations(tasks) ==
  [{tasks[i].task_description : i \in 1..Len(tasks)} ->
     [apis : ApiRecommendations, knowledge : KnowledgeRecommendations]]

\* lines 82-84: if self.enricher: workflow = self.enricher.enrich(workflow)
Enrich ==
  /\ pc = "enrich"
  /\ \E enricher \in Behaviours :
       IF enricher = "none"
       THEN /\ pc' = Then("revalidate")
            /\ UNCHANGED <<workflow, pre_enrich, raised, stages>>
       ELSE /\ pre_enrich' = workflow
            /\ stages' = Append(stages, "enrich")
            /\ \E recs \in Recommendations(workflow[1].tasks) :
                 IF enricher = "ok"
                 THEN /\ workflow' = Some([workflow[1] EXCEPT !.tasks = enrich(@, recs, None)])
                      /\ pc' = Then("enrich")
                      /\ UNCHANGED raised
                 ELSE /\ \E f \in EnrichFailures(workflow[1].tasks) :
                           workflow' = Some([workflow[1] EXCEPT !.tasks = enrich(@, recs, Some(f))])
                      /\ pc' = Then("revalidate")
                      /\ raised' = raised \cup {"enricher"}
  /\ UNCHANGED <<transcript, telemetry, telemetry_log, extract_error, mermaid, autogen_script_path,
                 skill_links, automation_links, repo, result, failure, fb, schemaVars, callVars, moreVars>>

\* lines 85-87: await self.validator.run(...) inside the try; except: pass
Revalidate ==
  /\ pc = "revalidate"
  /\ raised' = IF validator_run(workflow[1]) = None THEN raised ELSE raised \cup {"revalidate"}
  /\ pc' = Then("revalidate")
  /\ stages' = Append(stages, "revalidate")
  /\ UNCHANGED <<transcript, telemetry, telemetry_log, extract_error, workflow, pre_enrich, mermaid,
                 autogen_script_path, skill_links, automation_links, repo, result, failure, fb,
                 schemaVars, callVars, moreVars>>

\* lines 88-100: await self.visualizer.run(...), then the telemetry record
Render ==
  /\ pc = "render"
  /\ mermaid' = Some(render(workflow[1]))
  /\ telemetry_log' = Logged("visualizer")
  /\ raised' = AfterLog(raised)
  /\ pc' = Then("render")
  /\ stages' = Append(stages, "render")
  /\ UNCHANGED <<transcript, telemetry, extract_error, workflow, pre_enrich, autogen_script_path,
                 skill_links, automation_links, repo, result, failure, fb, schemaVars, callVars, moreVars>>

\* lines 102-133: automation bridge, skill matcher, automation recommender and
\* _persist_workflow, which run without an await between them
Handoff ==
  /\ pc = "handoff"
  /\ \E bridge \in Behaviours, matcher \in Behaviours, recommender \in Behaviours,
        repository \in Behaviours :
       \E generated \in {None, Some("script.py")}, links \in {<<>>, <<"link">>} :
         LET path == IF bridge = "ok" THEN generated ELSE None
             sl == IF matcher = "ok" THEN links ELSE <<>>
             al == IF recommender = "ok" THEN links ELSE <<>>
             wid == persist_workflow(repository, RunIdentifier)
         IN  /\ autogen_script_path' = path
             /\ skill_links' = sl
             /\ automation_links' = al
             /\ raised' = raised
                  \cup (IF bridge = "raises" THEN {"automation_bridge"} ELSE {})
                  \cup (IF matcher = "raises" THEN {"skill_matcher"} ELSE {})
                  \cup (IF recommender = "raises" THEN {"automation_recommender"} ELSE {})
                  \cup (IF repository = "raises" THEN {"repo"} ELSE {})
             /\ repo' = IF repository = "ok"
                        THEN Append(repo, [workflow_id |-> RunIdentifier, workflow |-> workflow[1],
                                           transcript |-> transcript, mermaid |-> mermaid[1],
                                           autogen_script_path |-> path, skill_links |-> sl,
                                           automation_links |-> al])
                        ELSE repo
             /\ IF wid = None
                THEN /\ failure' = Some([kind |-> "PersistenceError", id |-> ""])
                     /\ pc' = "aborted"
                     /\ UNCHANGED result
                ELSE /\ result' = Some([workflow_id |-> wid[1]])
                     /\ pc' = Then("handoff")
                     /\ UNCHANGED failure
  /\ stages' = Append(stages, "persist")
  /\ UNCHANGED <<transcript, telemetry, telemetry_log, extract_error, workflow, pre_enrich, mermaid,
                 fb, schemaVars, callVars, moreVars>>

\* lines 135-156: await self.learnloop.record_and_reflect(...) in a try, then return
Learn ==
  /\ pc = "learn"
  /\ \E learnloop \in Behaviours :
       raised' = IF learnloop = "raises" THEN raised \cup {"learnloop"} ELSE raised
  /\ result' = Some([workflow_id |-> result[1].workflow_id,
                     mermaid |-> mermaid[1],
                     task_count |-> Len(workflow[1].tasks),
                     autogen_script_path |-> autogen_script_path,
                     skill_links |-> skill_links,
                     automation_links |-> automation_links])
  /\ pc' = Then("learn")
  /\ stages' = Append(stages, "emit")
  /\ UNCHANGED <<transcript, telemetry, telemetry_log, extract_error, workflow, pre_enrich, mermaid,
                 autogen_script_path, skill_links, automation_links, repo, failure, fb, schemaVars, callVars, moreVars>>

Next == Extract \/ Validate \/ Enrich \/ Revalidate \/ Render \/ Handoff \/ Learn

Spec == Init /\ [][Next]_vars

\* ------------------------------------------------ graph notions of the claims
\* the edges the specification gives a workflow: every precedes entry, and for
\* a conditional branch task -> true_target and, when a false_target is given
\* (it is not None), task -> false_target
SpecEdgesOf(t) ==
  {<<t.task_id, t.precedes_tasks[j]>> : j \in 1..Len(t.precedes_tasks)}
  \cup (IF t.conditional_logic = None THEN {}
        ELSE {<<t.task_id, t.conditional_logic[1].true_path_task_id>>}
             \cup {<<t.task_id, t.conditional_logic[1].false_path_task_id[j]>> :
                     j \in 1..Len(t.conditional_logic[1].false_path_task_id)})

SpecEdges(tasks) == UNION {SpecEdgesOf(tasks[i]) : i \in 1..Len(tasks)}

RECURSIVE ReachableFrom(_, _)
\* the nodes reached from the set S by zero or more edges of E
ReachableFrom(E, S) ==
  LET more == {e[2] : e \in {x \in E : x[1] \in S}} \ S
  IN  IF more = {} THEN S ELSE ReachableFrom(E, S \cup more)

\* some edge of E lies on a directed cycle
HasCycle(E) == \E e \in E : e[1] \in ReachableFrom(E, {e[2]})

\* ids a task mentions, by kind of reference
PrecedesRefs(t) == {t.precedes_tasks[j] : j \in 1..Len(t.precedes_tasks)}
DependsRefs(t) == {t.dependencies[j] : j \in 1..Len(t.dependencies)}
CondRefIds(t) ==
  IF t.conditional_logic = None THEN {}
  ELSE {t.conditional_logic[1].true_path_task_id}
       \cup {t.conditional_logic[1].false_path_task_id[j] :
               j \in 1..Len(t.conditional_logic[1].false_path_task_id)}

Constructed == built # None
Accepted == built # None /\ built[1].ok
Rejected == built # None /\ ~built[1].ok
RejectedAs(kinds) == Rejected /\ built[1].error[1].kind \in kinds

\* ----------------------------------------------------------------- claims
\* C1 (as claimed): every workflow the JobWorkflowSchema constructor accepts
\* has no directed cycle in the graph of its precedes entries and its
\* conditional-branch edges (task -> true_target, task -> false_target).
C1_AcceptedIsAcyclic == Accepted => ~HasCycle(SpecEdges(tasks_in))

\* C2 (as claimed): in every accepted workflow every id in precedes,
\* depends_on and the conditional true/false targets names a task of it.
C2_ReferencesExist ==
  Accepted => \A i \in 1..Len(tasks_in) :
                 PrecedesRefs(tasks_in[i]) \cup DependsRefs(tasks_in[i]) \cup CondRefIds(tasks_in[i])
                   \subseteq TaskIds(tasks_in)

\* precedes ids / all checked ids of the task list that name no task of it
MissingSuccessors(tasks) ==
  UNION {PrecedesRefs(tasks[i]) : i \in 1..Len(tasks)} \ TaskIds(tasks)
MissingChecked(tasks) ==
  UNION {PrecedesRefs(tasks[i]) \cup DependsRefs(tasks[i]) : i \in 1..Len(tasks)} \ TaskIds(tasks)

\* C3 (as claimed): when some precedes entry names no task of the list, the
\* construction fails with an error naming that very id.
C3_NamesThatSuccessor ==
  Constructed =>
    \A z \in MissingSuccessors(tasks_in) :
       RejectedAs({"Successor", "Dependency"}) /\ built[1].error[1].id = z

\* C3 (amended): when some precedes entry names no task of the list, the
\* construction fails with a not-found error naming an id that is missing from
\* the list (that id when it is the only missing one), and no workflow value
\* is produced.
C3_DanglingSuccessorRejected ==
  (Constructed /\ MissingSuccessors(tasks_in) # {}) =>
     /\ RejectedAs({"Successor", "Dependency"})
     /\ built[1].value = None
     /\ built[1].error[1].id \in MissingChecked(tasks_in)

\* a dangling successor was reported under its own id
C3_Witness ==
  /\ RejectedAs({"Successor"})
  /\ built[1].error[1].id \in MissingSuccessors(tasks_in)

\* C4 (as claimed): all task_ids of an accepted workflow are pairwise distinct.
C4_UniqueIds ==
  Accepted => \A i, j \in 1..Len(tasks_in) :
                 i # j => tasks_in[i].task_id # tasks_in[j].task_id

\* in-degree of a task id in the graph of the specification
SpecInDegree(tasks, n) == Cardinality({e \in SpecEdges(tasks) : e[2] = n})

\* C5 (as claimed): every accepted workflow has a task of in-degree zero in the
\* graph of precedes and conditional-branch edges, and a workflow without one
\* that passed the cycle check is rejected as having no root.
C5_RootExists ==
  /\ Accepted => \E i \in 1..Len(tasks_in) : SpecInDegree(tasks_in, tasks_in[i].task_id) = 0
  /\ (Constructed /\ validate_refs(tasks_in) = None
        /\ is_directed_acyclic_graph(DiGraph(tasks_in))
        /\ \A i \in 1..Len(tasks_in) : SpecInDegree(tasks_in, tasks_in[i].task_id) > 0)
       => RejectedAs({"NoRoot"})

\* the lines of a text that hold something other than blanks: one per
\* character that is the first non-blank character after a newline (or the start)
NonBlankLineCount(s) ==
  Cardinality({i \in 1..Len(s) :
     /\ s[i] \notin {" ", "\n"}
     /\ \A k \in 1..(i - 1) : (\A m \in k..(i - 1) : s[m] # "\n") => s[k] = " "})

\* the four invariants of the specification, for a task list
FourInvariants(tasks) ==
  /\ \A i, j \in 1..Len(tasks) : i # j => tasks[i].task_id # tasks[j].task_id
  /\ \A i \in 1..Len(tasks) :
        PrecedesRefs(tasks[i]) \cup DependsRefs(tasks[i]) \cup CondRefIds(tasks[i]) \subseteq TaskIds(tasks)
  /\ ~HasCycle(SpecEdges(tasks))
  /\ \E i \in 1..Len(tasks) : SpecInDegree(tasks, tasks[i].task_id) = 0

\* tasks is the single node T1 or the chain T1 -> T2 -> ... -> Tn
IsChain(tasks, n) ==
  /\ Len(tasks) = n
  /\ \A i \in 1..n :
        /\ tasks[i].task_id = TName(i)
        /\ tasks[i].precedes_tasks = (IF i < n THEN <<TName(i + 1)>> ELSE <<>>)
        /\ tasks[i].dependencies = <<>>
        /\ tasks[i].conditional_logic = None

\* C9: for every transcript the rule-based fallback returns a workflow (its
\* constructor does not raise) that has unique ids, only existing references,
\* no cycle and a root, and that is the single node T1 or the linear chain
\* T1 -> ... -> Tn with one task per non-blank line.
C9_FallbackValid ==
  fb # None =>
    /\ fb[1].ok
    /\ FourInvariants(fb[1].value[1].tasks)
    /\ IsChain(fb[1].value[1].tasks,
               IF NonBlankLineCount(transcript) = 0 THEN 1 ELSE NonBlankLineCount(transcript))

\* the fallback built a chain of several tasks, one of them with a speaker
C9_Witness ==
  /\ fb # None /\ fb[1].ok
  /\ Len(fb[1].value[1].tasks) >= 2
  /\ \E i \in 1..Len(fb[1].value[1].tasks) : fb[1].value[1].tasks[i].role_owner # Unknown

\* --------------------------------------------------------- pipeline claims
\* a validation inside the pipeline met a graph-level error: in the
\* model_validate of ExtractorAgent.run, in the validation after extraction or
\* in the re-validation after enrichment
GraphErrorDetected ==
  \/ extract_error # None /\ extract_error[1].kind \in GraphErrorKinds
  \/ failure # None /\ failure[1].kind \in GraphErrorKinds
  \/ "revalidate" \in raised

\* C6 (as claimed): once a validation of the pipeline has detected a dangling
\* reference, a cycle or a missing root, no workflow is substituted, no diagram
\* is rendered, nothing is persisted and no result is returned for that input.
C6_GraphErrorAborts ==
  GraphErrorDetected => /\ workflow = None
                        /\ mermaid = None
                        /\ repo = <<>>
                        /\ result = None

\* C7 (as claimed): when the enricher failed, the workflow that is rendered and
\* persisted is the workflow exactly as it was when enrichment was attempted.
C7_PreEnrichmentWorkflowKept ==
  ("enricher" \in raised /\ mermaid # None) =>
     /\ workflow = pre_enrich
     /\ \A i \in 1..Len(repo) : repo[i].workflow = pre_enrich[1]

Rank(stage) ==
  CASE stage = "extract" -> 1
    [] stage = "validate" -> 2
    [] stage = "enrich" -> 3
    [] stage = "revalidate" -> 4
    [] stage = "render" -> 5
    [] stage = "persist" -> 6
    [] stage = "emit" -> 7

Ran(stage) == \E i \in 1..Len(stages) : stages[i] = stage

\* C8: in every run of process_transcript the stages that run do so in the
\* order extraction, validation, enrichment, re-validation, render,
\* persistence, emit; a diagram exists only after the first validation has
\* succeeded, re-validation runs only after enrich has returned (it is left
\* out when there is no enricher or enrich raised), persistence only after
\* render, and a result is returned only after persistence.
C8_StageOrder ==
  /\ \A i, j \in 1..Len(stages) : i < j => Rank(stages[i]) < Rank(stages[j])
  /\ stages # <<>> => stages[1] = "extract"
  /\ (Ran("render") \/ mermaid # None) =>
        Ran("validate") /\ failure = None /\ validator_run(workflow[1]) = None
  /\ Ran("revalidate") => Ran("enrich") /\ pre_enrich # None /\ "enricher" \notin raised
  /\ (Ran("persist") \/ repo # <<>>) => Ran("render") /\ mermaid # None
  /\ (Ran("emit") \/ pc = "done") => Ran("persist")

\* a run went through all seven stages
C8_Witness ==
  /\ pc = "done"
  /\ stages = <<"extract", "validate", "enrich", "revalidate", "render", "persist", "emit">>

\* C10: no failing collaborator stops process_transcript: it never raises to
\* its caller, and the result it returns holds the diagram and the task count
\* of its workflow; a failed extraction is replaced by the fallback workflow,
\* a failed bridge gives a null script path, a failed matcher or recommender
\* an empty link list and a failed persistence 'workflow_persist_error'.
C10_CollaboratorFailuresDegrade ==
  /\ pc # "aborted" /\ failure = None
  /\ pc = "done" =>
       /\ result # None
       /\ result[1].mermaid = render(workflow[1])
       /\ result[1].task_count = Len(workflow[1].tasks)
       /\ "automation_bridge" \in raised => result[1].autogen_script_path = None
       /\ "skill_matcher" \in raised => result[1].skill_links = <<>>
       /\ "automation_recommender" \in raised => result[1].automation_links = <<>>
       /\ "repo" \in raised => result[1].workflow_id = "workflow_persist_error"
       /\ extract_error # None =>
            LET f == fallback(transcript, Some(extract_error[1].type)).value[1]
            IN  /\ result[1].mermaid = render(f)
                /\ result[1].task_count = Len(f.tasks)
                /\ workflow[1].workflow_name = f.workflow_name

\* a run in which the extraction and every collaborator failed returned a result
C10_Witness ==
  /\ pc = "done" /\ result # None
  /\ extract_error # None
  /\ raised = {"telemetry", "enricher", "automation_bridge", "skill_matcher",
               "automation_recommender", "repo", "learnloop"}

\* ------------------------------------------------- validation order claims
\* ids mentioned by precedes, dependencies or a conditional target that name
\* no task of the list: the dangling references of the specification
SpecMissing(tasks) ==
  UNION {PrecedesRefs(tasks[i]) \cup DependsRefs(tasks[i]) \cup CondRefIds(tasks[i]) :
           i \in 1..Len(tasks)} \ TaskIds(tasks)

\* C11 (as claimed): the reference check runs first, then the cycle check,
\* then the root check, and only the first failure is reported: a workflow
\* with a dangling reference and a cycle is rejected as a dangling reference,
\* a workflow with valid references and a cycle is rejected as a cycle, and
\* a result never carries more than one error.
C11_FailFastOrder ==
  Constructed =>
    /\ (SpecMissing(tasks_in) # {} /\ HasCycle(SpecEdges(tasks_in)))
          => RejectedAs({"Dependency", "Successor"})
    /\ (SpecMissing(tasks_in) = {} /\ HasCycle(SpecEdges(tasks_in)))
          => RejectedAs({"Cycle"})
    /\ Len(built[1].error) <= 1

\* the references of one task in the order of the specification: precedes,
\* then depends_on, then conditional true target, then conditional false target
SpecRefOrder(t) ==
  [j \in 1..Len(t.precedes_tasks) |-> [kind |-> "Successor", id |-> t.precedes_tasks[j]]]
  \o [j \in 1..Len(t.dependencies) |-> [kind |-> "Dependency", id |-> t.dependencies[j]]]
  \o (IF t.conditional_logic = None THEN <<>>
      ELSE <<[kind |-> "ConditionalTrue", id |-> t.conditional_logic[1].true_path_task_id]>>
           \o [j \in 1..Len(t.conditional_logic[1].false_path_task_id) |->
                 [kind |-> "ConditionalFalse", id |-> t.conditional_logic[1].false_path_task_id[j]]])

\* the references of a task list in declaration order of its tasks
SpecRefsInOrder(tasks) == Flatten([i \in 1..Len(tasks) |-> SpecRefOrder(tasks[i])])

\* the first reference, in that order, that names no task of the list
SpecFirstMissing(tasks) ==
  LET refs == SpecRefsInOrder(tasks)
      bad == SelectSeq(refs, LAMBDA r : r.id \notin TaskIds(tasks))
  IN  IF bad = <<>> THEN None ELSE Some(Head(bad))

\* C12 (as claimed): when references are missing, the error reported is the
\* first missing one in the order declaration order of tasks, then precedes,
\* depends_on, conditional true target, conditional false target.
C12_FirstDanglingReported ==
  (Constructed /\ SpecFirstMissing(tasks_in) # None) =>
     /\ Rejected
     /\ built[1].error[1] = SpecFirstMissing(tasks_in)[1]

\* the task list with every dependencies field emptied
WithoutDependencies(tasks) == [i \in 1..Len(tasks) |-> [tasks[i] EXCEPT !.dependencies = <<>>]]

DependenciesExist(tasks) == \A i \in 1..Len(tasks) : DependsRefs(tasks[i]) \subseteq TaskIds(tasks)

\* C13: dependencies add no edge to the graph: a task list whose dependencies
\* all exist gets the same outcome of the cycle and root checks, and of the
\* constructor, as the same list without its dependencies; tasks that only
\* depend on each other (no precedes, no conditional branch) are accepted.
C13_DependsOnAddsNoEdges ==
  (Constructed /\ DependenciesExist(tasks_in)) =>
     /\ validate_dag(tasks_in) = validate_dag(WithoutDependencies(tasks_in))
     /\ built[1].error = JobWorkflowSchema("WF", WithoutDependencies(tasks_in)).error
     /\ (tasks_in # <<>> /\ SpecEdges(tasks_in) = {}) => Accepted

\* two tasks that depend on each other, and on nothing else, were accepted
C13_Witness ==
  /\ Accepted
  /\ Len(tasks_in) = 2
  /\ tasks_in[1].task_id # tasks_in[2].task_id
  /\ tasks_in[1].dependencies = <<tasks_in[2].task_id>>
  /\ tasks_in[2].dependencies = <<tasks_in[1].task_id>>
  /\ SpecEdges(tasks_in) = {}

\* no precedes entry, no dependency and no conditional branch in any task
EdgeFree(tasks) ==
  \A i \in 1..Len(tasks) :
     /\ tasks[i].precedes_tasks = <<>>
     /\ tasks[i].dependencies = <<>>
     /\ tasks[i].conditional_logic = None

DistinctIds(tasks) == \A i, j \in 1..Len(tasks) : i # j => tasks[i].task_id # tasks[j].task_id

\* C14: a list of N >= 1 tasks with distinct ids, no precedes entry, no
\* dependency and no conditional branch is accepted by the constructor, with
\* its tasks unchanged and every task a root of the graph.
C14_EdgeFreeValidates ==
  (Constructed /\ Len(tasks_in) >= 1 /\ DistinctIds(tasks_in) /\ EdgeFree(tasks_in)) =>
     /\ Accepted
     /\ built[1].value[1].tasks = tasks_in
     /\ \A i \in 1..Len(tasks_in) : in_degree(DiGraph(tasks_in), tasks_in[i].task_id) = 0

\* an edge-free list of as many tasks as the bound allows was accepted
C14_Witness ==
  /\ Accepted
  /\ Len(tasks_in) = MaxTasks
  /\ DistinctIds(tasks_in)
  /\ EdgeFree(tasks_in)

\* C15: ValidatorAgent.run leaves the workflow it is given as it was, whether
\* it returns or raises: after any number of runs the workflow (task order,
\* ids, precedes, dependencies, conditional branches, annotations) is the one
\* every run was given, and every run ended the same way.
C15_ValidationReadOnly ==
  \A i \in 1..Len(checks) :
     /\ checks[i].workflow = WorkflowObject
     /\ checks[i].outcome = checks[1].outcome
     /\ checks[i].outcome = validator_run(WorkflowObject)

\* the validator ran twice on a workflow it rejects
C15_Witness ==
  /\ Len(checks) = 2
  /\ checks[1].outcome # None
  /\ Len(tasks_in) = 2

\* ------------------------------------------------------------ render claims
\* number of precedes entries of a task list
RECURSIVE PrecedesCount(_)
PrecedesCount(tasks) ==
  IF tasks = <<>> THEN 0 ELSE Len(Head(tasks).precedes_tasks) + PrecedesCount(Tail(tasks))

\* <<source, target>> of every precedes entry: tasks in declaration order,
\* the entries of one task in list order
PrecedesInOrder(tasks) ==
  Flatten([i \in 1..Len(tasks) |->
             [j \in 1..Len(tasks[i].precedes_tasks) |-> <<tasks[i].task_id, tasks[i].precedes_tasks[j]>>]])

\* C16: render is deterministic and leaves the workflow alone: every call of
\* render on a validated workflow, with or without a validation in between,
\* returns the same string, the workflow afterwards is the one every call was
\* given, and the node lines follow the declaration order of the tasks and the
\* edge lines the declaration order and the list order of precedes.
C16_RenderDeterministic ==
  \A i \in 1..Len(rendered) :
     LET wf == rendered[i].workflow
         ls == splitlines(rendered[i].mermaid)
         nodes == SelectSeq(ls, LAMBDA x : Len(x) >= 3 /\ x[3] = "([\"")
         edges == SelectSeq(ls, LAMBDA x : Len(x) = 4 /\ x[3] = " --> ")
     IN  /\ wf = WorkflowObject
         /\ rendered[i].mermaid = rendered[1].mermaid
         /\ rendered[i].mermaid = render_str(WorkflowObject)
         /\ [j \in 1..Len(nodes) |-> nodes[j][2]] = [j \in 1..Len(wf.tasks) |-> wf.tasks[j].task_id]
         /\ [j \in 1..Len(edges) |-> <<edges[j][2], edges[j][4]>>] = PrecedesInOrder(wf.tasks)

\* three tasks, one of them with two precedes entries, were rendered twice
\* with a validation in between
C16_Witness ==
  /\ Len(rendered) = 2
  /\ Len(checks) = 2
  /\ Len(tasks_in) = 3
  /\ \E j \in 1..3 : Len(tasks_in[j].precedes_tasks) = 2
                     /\ tasks_in[j].precedes_tasks[1] # tasks_in[j].precedes_tasks[2]

\* C17 (as claimed): for a validated workflow with N tasks, E precedes
\* entries and no conditional branch the rendered string has exactly
\* 1 + N + E lines: the header 'graph TD', one node line per task, then one
\* edge line 'src --> dst' per precedes entry.
C17_LineStructure ==
  \A i \in 1..Len(rendered) :
     LET tasks == rendered[i].workflow.tasks
         N == Len(tasks)
         E == PrecedesCount(tasks)
         ls == splitlines(rendered[i].mermaid)
     IN  (\A j \in 1..N : tasks[j].conditional_logic = None) =>
            /\ Len(ls) = 1 + N + E
            /\ ls[1] = <<"graph TD">>
            /\ \A j \in 1..N : ls[1 + j][2] = tasks[j].task_id
            /\ \A j \in 1..E : ls[1 + N + j] = <<"    ", PrecedesInOrder(tasks)[j][1], " --> ",
                                                 PrecedesInOrder(tasks)[j][2]>>

\* a text with every double quote turned into a single quote and every
\* newline into a blank
Replaced(t) ==
  [k \in 1..Len(t) |-> IF t[k] = "\"" THEN "'" ELSE IF t[k] = "\n" THEN " " ELSE t[k]]

\* C18: in the lines render makes for a workflow, the label of a node is the
\* description, and the label of a conditional edge the condition, with each
\* double quote turned into a single quote and each newline into a blank, so
\* a label holds no double quote and no newline.
C18_DescriptionSanitized ==
  \A i \in 1..Len(rendered) :
     LET tasks == rendered[i].workflow.tasks
         ls == render(rendered[i].workflow)
         conds == SelectSeq(tasks, LAMBDA t : t.conditional_logic # None)
         condLines == SelectSeq(ls, LAMBDA l : l.kind = "cond" /\ l.label # <<"E", "l", "s", "e">>)
     IN  /\ rendered[i].mermaid = JoinLines([j \in 1..Len(ls) |-> LineText(ls[j])])
         /\ \A j \in 1..Len(tasks) :
               /\ ls[1 + j].label = Replaced(tasks[j].task_description)
               /\ \A k \in 1..Len(ls[1 + j].label) : ls[1 + j].label[k] \notin {"\"", "\n"}
         /\ Len(condLines) = Len(conds)
         /\ \A j \in 1..Len(conds) :
               /\ condLines[j].label = Replaced(conds[j].conditional_logic[1].condition)
               /\ \A k \in 1..Len(condLines[j].label) : condLines[j].label[k] \notin {"\"", "\n"}

\* a workflow was rendered whose description and condition hold a double
\* quote and a newline
C18_Witness ==
  /\ rendered # <<>>
  /\ \E j \in 1..Len(tasks_in) :
        /\ tasks_in[j].conditional_logic # None
        /\ \E k \in 1..Len(tasks_in[j].task_description) : tasks_in[j].task_description[k] = "\""
        /\ \E k \in 1..Len(tasks_in[j].conditional_logic[1].condition) :
              tasks_in[j].conditional_logic[1].condition[k] = "\n"

\* C20 (as claimed): the role_owner shown in a node line is sanitized: no
\* double quote and no newline of a role_owner is in the rendered diagram.
C20_RoleSanitized ==
  \A i \in 1..Len(rendered) :
     LET ls == render(rendered[i].workflow)
     IN  \A j \in 1..Len(ls) :
            ls[j].kind = "node" => \A k \in 1..Len(ls[j].role) : ls[j].role[k] \notin {"\"", "\n"}

\* the text ends with the ellipsis marker "..."
EndsWithEllipsis(t) == Len(t) >= 3 /\ SubSeq(t, Len(t) - 2, Len(t)) = <<".", ".", ".">>

\* C19 (as claimed): the sanitized label is at most max_len characters long
\* (120 for a description, 60 for a condition), it ends with the ellipsis
\* marker exactly when the input was longer than max_len, and an input that
\* is not longer is returned without truncation.
C19_LabelTruncation ==
  sanitize_out # None =>
    LET m == sanitize_out[1].max_len
        out == sanitize_out[1].out
    IN  /\ Len(out) <= m
        /\ EndsWithEllipsis(out) <=> Len(sanitize_in) > m
        /\ Len(sanitize_in) <= m => out = Replaced(sanitize_in)

\* ------------------------------------------------- conditional edge claims
\* the lines of a rendered string that are labeled edges / plain edges /
\* class statements
IsLabeledEdge(x) == Len(x) >= 5 /\ x[1] = "    " /\ x[3] = " -- \"" /\ x[Len(x) - 1] = "\" --> "
IsPlainEdge(x) == Len(x) = 4 /\ x[1] = "    " /\ x[3] = " --> "
IsClassLine(x) == Len(x) = 3 /\ x[1] = "    class " /\ x[3] = " decisionNode;"
IsClassDef(x) == x = <<"    classDef decisionNode fill:#ffe4b5,stroke:#333;">>

\* the labeled edge lines of a rendered string that start at the task id
LabeledEdgesOf(str, id) == SelectSeq(splitlines(str), LAMBDA x : IsLabeledEdge(x) /\ x[2] = id)

\* C21 (as claimed): a task with a conditional branch contributes exactly one
\* labeled edge line, to the true target and labeled with the sanitized
\* condition, when it has no false target, and exactly two, the second to the
\* false target and labeled Else, when it has one; a task without a
\* conditional branch contributes none.
C21_ConditionalEdgeCount ==
  \A i \in 1..Len(rendered) :
     LET tasks == rendered[i].workflow.tasks
     IN  \A j \in 1..Len(tasks) :
            LET c == tasks[j].conditional_logic
                es == LabeledEdgesOf(rendered[i].mermaid, tasks[j].task_id)
            IN  /\ c = None => es = <<>>
                /\ c # None =>
                     /\ Len(es) = 1 + Len(c[1].false_path_task_id)
                     /\ es[1] = <<"    ", tasks[j].task_id, " -- \"">>
                                   \o sanitize(c[1].condition, ConditionMaxLen)
                                   \o <<"\" --> ", c[1].true_path_task_id>>
                     /\ c[1].false_path_task_id # None =>
                          es[2] = <<"    ", tasks[j].task_id, " -- \"", "E", "l", "s", "e",
                                    "\" --> ", c[1].false_path_task_id[1]>>

\* position of the lines of a rendered string that satisfy a test
LinesWhere(str, Test(_)) ==
  LET ls == splitlines(str) IN {k \in 1..Len(ls) : Test(ls[k])}

\* position of a task id in the declaration order of a workflow (0: not a task)
DeclaredAt(wf, id) ==
  IF \E j \in 1..Len(wf.tasks) : wf.tasks[j].task_id = id
  THEN CHOOSE j \in 1..Len(wf.tasks) : wf.tasks[j].task_id = id
  ELSE 0

\* C22 (as claimed): render emits the plain precedes edge lines of all tasks
\* as one step and only then the labeled conditional edge lines: no labeled
\* edge line of a task comes before a plain edge line of a task declared
\* later.
C22_PlainEdgesFirst ==
  \A i \in 1..Len(rendered) :
     LET str == rendered[i].mermaid
         ls == splitlines(str)
         wf == rendered[i].workflow
     IN  \A p \in LinesWhere(str, IsPlainEdge), q \in LinesWhere(str, IsLabeledEdge) :
            DeclaredAt(wf, ls[q][2]) < DeclaredAt(wf, ls[p][2]) => p < q

\* C23: the rendered string holds the decision-node style annotation exactly
\* when some task has a conditional branch; the annotation comes after every
\* edge line and its class lines name the tasks that have a conditional
\* branch, once each, in declaration order.
C23_DecisionAnnotation ==
  \A i \in 1..Len(rendered) :
     LET str == rendered[i].mermaid
         ls == splitlines(str)
         dec == SelectSeq(rendered[i].workflow.tasks, LAMBDA t : t.conditional_logic # None)
         defs == {k \in 1..Len(ls) : IsClassDef(ls[k])}
         edges == {k \in 1..Len(ls) : IsPlainEdge(ls[k]) \/ IsLabeledEdge(ls[k])}
         marks == {k \in 1..Len(ls) : IsClassLine(ls[k])}
         classes == SelectSeq(ls, IsClassLine)
     IN  /\ (defs # {}) <=> (dec # <<>>)
         /\ Cardinality(defs) <= 1
         /\ [j \in 1..Len(classes) |-> classes[j][2]] = [j \in 1..Len(dec) |-> dec[j].task_id]
         /\ \A d \in defs :
               /\ \A e \in edges : e < d
               /\ \A c \in marks : d < c

\* a workflow of three tasks, the first and the last with a conditional
\* branch and the second with a precedes entry, was rendered
C23_Witness ==
  /\ rendered # <<>>
  /\ Len(tasks_in) = 3
  /\ tasks_in[1].conditional_logic # None
  /\ tasks_in[2].conditional_logic = None
  /\ tasks_in[3].conditional_logic # None

\* ------------------------------------------------------------ root claims
\* the task ids of in-degree zero in the graph of precedes and
\* conditional-branch edges
SpecRoots(tasks) == {id \in TaskIds(tasks) : SpecInDegree(tasks, id) = 0}

\* C28 (as claimed): in every accepted workflow every task is reachable, by
\* zero or more precedes or conditional-branch edges, from a task of
\* in-degree zero; tasks without any edge between them, each its own root,
\* are accepted.
C28_RootReachability ==
  /\ Accepted => TaskIds(tasks_in) \subseteq ReachableFrom(SpecEdges(tasks_in), SpecRoots(tasks_in))
  /\ (Constructed /\ tasks_in # <<>> /\ SpecEdges(tasks_in) = {} /\ validate_refs(tasks_in) = None)
       => Accepted

\* C29: 'No root task detected' is raised exactly for the empty task list:
\* a non-empty task list that passes the reference check and the cycle check
\* has a node of in-degree zero in the graph the validator builds, and the
\* workflow without tasks is never accepted.
C29_NoRootOnlyWhenEmpty ==
  Constructed =>
    /\ RejectedAs({"NoRoot"}) <=> tasks_in = <<>>
    /\ tasks_in = <<>> => Rejected
    /\ (tasks_in # <<>> /\ validate_refs(tasks_in) = None
          /\ is_directed_acyclic_graph(DiGraph(tasks_in)))
         => \E n \in DiGraph(tasks_in).nodes : in_degree(DiGraph(tasks_in), n) = 0

\* the workflow without tasks was constructed and rejected for its missing root
C29_Witness == Constructed /\ tasks_in = <<>> /\ RejectedAs({"NoRoot"})

\* ------------------------------------------------ TaskObject construction
\* bound on the number of TaskObject(...) constructions
MaxMade == 4

\* str(uuid.uuid4()): the n-th call returns a text no earlier call returned
uuid4(n) == "uuid-" \o ToString(n)

\* the task_id field of TaskObject(task_id=given, ...): the default_factory
\* runs only when no task_id is given; a given string is kept as it is
task_id_field(given, n) == IF given = None THEN uuid4(n) ELSE given[1]

\* the number of uuid4 calls the constructions so far made
UuidCalls == Len(SelectSeq(made, LAMBDA m : m.given = None))

InitTask ==
  /\ made = <<>>
  /\ EnrichIdle
  /\ RunsIdle
  /\ RateIdle
  /\ ExecIdle
  /\ SchemaIdle
  /\ FallbackIdle
  /\ PipeIdle
  /\ CallsIdle

\* TaskObject(task_id=given, task_description="d", role_owner="r")
MakeTask ==
  /\ Len(made) < MaxMade
  /\ \E given \in {None} \cup {Some(id) : id \in Ids} :
        made' = Append(made, [given |-> given,
                              task |-> [task_id |-> task_id_field(given, UuidCalls + 1),
                                        task_description |-> <<"d">>,
                                        role_owner |-> <<"r">>,
                                        precedes_tasks |-> <<>>,
                                        dependencies |-> <<>>,
                                        conditional_logic |-> None,
                                        required_knowledge |-> <<>>,
                                        required_skill_tags |-> <<>>]])
  /\ UNCHANGED <<oldVars, enrichVars, runVars, rateVars, execVars>>

NextTask == MakeTask

SpecTask == InitTask /\ [][NextTask]_vars

\* a construction whose task_id is blank: absent or the empty string
BlankGiven(m) == m.given = None \/ m.given = Some("")

\* C24 (as claimed): constructing a task whose task_id is blank (absent or
\* the empty string) yields a task with a non-empty generated id, two tasks
\* constructed this way get distinct ids, and a non-blank task_id that was
\* supplied is kept unchanged.
C24_BlankIdGenerated ==
  \A i \in 1..Len(made) :
     /\ BlankGiven(made[i]) =>
          /\ made[i].task.task_id # ""
          /\ \A j \in 1..Len(made) :
                (j # i /\ BlankGiven(made[j])) => made[j].task.task_id # made[i].task.task_id
     /\ ~BlankGiven(made[i]) => made[i].task.task_id = made[i].given[1]

\* ------------------------------------------- MasterJobTreeEnricher.enrich
\* bound on the number of tasks of the workflow handed to enrich
EnrichMaxTasks == 2

\* entries a task can hold before enrichment
ExistingSkills == {<<>>, <<[id |-> "s0", description |-> "/v0"]>>}
ExistingKnowledge == {<<>>, <<[id |-> "k0", description |-> "k0"]>>}

\* TaskObject values for the idx-th task of the workflow to enrich: without
\* references, preceding the next task, depending on the first task, or
\* branching to the first task; with or without entries held already
EnrichTaskObjects(idx) ==
  {[task_id |-> TName(idx),
    task_description |-> TextA,
    role_owner |-> TextA,
    precedes_tasks |-> refs.p,
    dependencies |-> refs.d,
    conditional_logic |-> refs.c,
    required_knowledge |-> kn,
    required_skill_tags |-> sk] :
      refs \in {[p |-> <<>>, d |-> <<>>, c |-> None],
                [p |-> <<TName(idx + 1)>>, d |-> <<>>, c |-> None],
                [p |-> <<>>, d |-> <<TName(1)>>, c |-> None],
                [p |-> <<>>, d |-> <<>>,
                 c |-> Some([condition |-> TextA, true_path_task_id |-> TName(1),
                             false_path_task_id |-> None])]},
      sk \in ExistingSkills, kn \in ExistingKnowledge}

InitEnrich ==
  /\ enrich_in = <<>>
  /\ enriched = None
  /\ TaskIdle
  /\ RunsIdle
  /\ RateIdle
  /\ ExecIdle
  /\ SchemaIdle
  /\ FallbackIdle
  /\ PipeIdle
  /\ CallsIdle

\* the workflow to enrich gets one more task, which may hold entries already
AddEnrichTask ==
  /\ enriched = None
  /\ Len(enrich_in) < EnrichMaxTasks
  /\ \E t \in EnrichTaskObjects(Len(enrich_in) + 1) : enrich_in' = Append(enrich_in, t)
  /\ UNCHANGED <<enriched, oldVars, taskVars, runVars, rateVars, execVars>>

\* MasterJobTreeEnricher.enrich(workflow): the loop runs to its end, or a
\* call made for some task raises and the tasks handled so far stay changed
EnrichCall ==
  /\ enriched = None
  /\ enrich_in # <<>>
  /\ \E recs \in Recommendations(enrich_in) :
       \E fail \in {None} \cup {Some(f) : f \in EnrichFailures(enrich_in)} :
          enriched' = Some([given |-> enrich_in,
                            result |-> enrich(enrich_in, recs, fail),
                            raised |-> fail # None])
  /\ UNCHANGED <<enrich_in, oldVars, taskVars, runVars, rateVars, execVars>>

NextEnrich == AddEnrichTask \/ EnrichCall

SpecEnrich == InitEnrich /\ [][NextEnrich]_vars

\* sequence s is the beginning of sequence t
IsPrefix(s, t) == Len(s) <= Len(t) /\ \A i \in 1..Len(s) : t[i] = s[i]

\* C25: MasterJobTreeEnricher.enrich leaves the number and order of tasks and
\* each task's task_id, description, role_owner, precedes_tasks, dependencies
\* and conditional_logic unchanged; it only appends to required_knowledge and
\* required_skill_tags, whose earlier entries keep content and position; a
\* workflow that validated before the call validates after it.
C25_EnrichAppendOnly ==
  enriched # None =>
    LET g == enriched[1].given
        r == enriched[1].result
    IN  /\ Len(r) = Len(g)
        /\ \A i \in 1..Len(g) :
              /\ r[i].task_id = g[i].task_id
              /\ r[i].task_description = g[i].task_description
              /\ r[i].role_owner = g[i].role_owner
              /\ r[i].precedes_tasks = g[i].precedes_tasks
              /\ r[i].dependencies = g[i].dependencies
              /\ r[i].conditional_logic = g[i].conditional_logic
              /\ IsPrefix(g[i].required_knowledge, r[i].required_knowledge)
              /\ IsPrefix(g[i].required_skill_tags, r[i].required_skill_tags)
        /\ JobWorkflowSchema("WF", g).ok => JobWorkflowSchema("WF", r).ok

\* enrich ran to its end on a valid workflow of two tasks and appended a
\* skill entry and a knowledge entry behind the entries the first task held
C25_Witness ==
  /\ enriched # None
  /\ ~enriched[1].raised
  /\ Len(enriched[1].given) = 2
  /\ JobWorkflowSchema("WF", enriched[1].given).ok
  /\ Len(enriched[1].given[1].required_skill_tags) = 1
  /\ Len(enriched[1].result[1].required_skill_tags) = 2
  /\ Len(enriched[1].given[1].required_knowledge) = 1
  /\ Len(enriched[1].result[1].required_knowledge) = 2

\* ------------------------------- concurrent runs of process_transcript
\* the two coroutines of process_transcript running on one Orchestrator
Runs == {"r1", "r2"}

\* the transcripts and the LLM answers the runs can get
RunTranscripts == {<<>>, <<"a">>}
RunResponses ==
  {[kind |-> "LLMRouterError", tasks |-> <<>>], [kind |-> "json", tasks |-> <<>>]}
  \cup {[kind |-> "json", tasks |-> <<t>>] : t \in TaskObjects[0]}

\* the frame of a coroutine before its first statement
NewFrame ==
  [pc |-> "extract", given |-> None, workflow |-> None, enrich_fail |-> None,
   validated |-> <<>>, mermaid |-> None, result |-> None]

\* a run reading the local variable of the other run once that one is set
WorkflowOfShared(fr, r) ==
  LET other == CHOOSE o \in Runs : o # r
  IN  IF fr[other].workflow # None THEN fr[other].workflow ELSE fr[r].workflow

\* the local variable workflow of process_transcript in the frame of run r
WorkflowOf(fr, r) == fr[r].workflow

\* the recommendations self.enricher gives for the descriptions of a task list
CatalogRecs(tasks) == [desc \in {tasks[i].task_description : i \in 1..Len(tasks)} |-> catalog[1]]

InitRuns ==
  /\ frames = [r \in Runs |-> NewFrame]
  /\ store = <<>>
  /\ catalog \in {Some(c) : c \in [apis : ApiRecommendations, knowledge : KnowledgeRecommendations]}
  /\ TaskIdle
  /\ EnrichIdle
  /\ RateIdle
  /\ ExecIdle
  /\ SchemaIdle
  /\ FallbackIdle
  /\ PipeIdle
  /\ CallsIdle

\* line 57-58 of run r: await self.extractor.run(...)
RunExtract(r) ==
  /\ frames[r].pc = "extract"
  /\ \E t \in RunTranscripts, resp \in RunResponses :
       LET x == extractor_run(t, resp)
       IN  frames' = [frames EXCEPT ![r] =
                        [@ EXCEPT !.given = Some([transcript |-> t, resp |-> resp]),
                                  !.workflow = IF x.ok THEN x.value ELSE None,
                                  !.pc = IF x.ok THEN "validate" ELSE "failed"]]
  /\ UNCHANGED <<store, catalog, oldVars, taskVars, enrichVars, rateVars, execVars>>

\* line 70 of run r: await self.validator.run({"workflow": workflow})
RunValidate(r) ==
  /\ frames[r].pc = "validate"
  /\ LET wf == WorkflowOf(frames, r)[1]
     IN  frames' = [frames EXCEPT ![r] =
                      [@ EXCEPT !.validated = Append(@, wf),
                                !.pc = IF validator_run(wf) = None THEN "enrich" ELSE "failed"]]
  /\ UNCHANGED <<store, catalog, oldVars, taskVars, enrichVars, rateVars, execVars>>

\* lines 82-87 of run r: workflow = self.enricher.enrich(workflow), then
\* await self.validator.run(...), both inside the try
RunEnrich(r) ==
  /\ frames[r].pc = "enrich"
  /\ LET wf == WorkflowOf(frames, r)[1]
     IN  \E fail \in {None} \cup {Some(f) : f \in EnrichFailures(wf.tasks)} :
            LET after == [wf EXCEPT !.tasks = enrich(@, CatalogRecs(wf.tasks), fail)]
            IN  frames' = [frames EXCEPT ![r] =
                             [@ EXCEPT !.workflow = Some(after),
                                       !.enrich_fail = fail,
                                       !.validated = IF fail = None THEN Append(@, after) ELSE @,
                                       !.pc = "render"]]
  /\ UNCHANGED <<store, catalog, oldVars, taskVars, enrichVars, rateVars, execVars>>

\* lines 88-89 of run r: await self.visualizer.run({"workflow": workflow})
RunRender(r) ==
  /\ frames[r].pc = "render"
  /\ frames' = [frames EXCEPT ![r] =
                  [@ EXCEPT !.mermaid = Some(render_str(WorkflowOf(frames, r)[1])),
                            !.pc = "persist"]]
  /\ UNCHANGED <<store, catalog, oldVars, taskVars, enrichVars, rateVars, execVars>>

\* lines 102-148 of run r: self._persist_workflow(...), then await
\* self.learnloop.record_and_reflect(...)
RunPersist(r) ==
  /\ frames[r].pc = "persist"
  /\ store' = Append(store, [workflow_id |-> "wf-" \o r,
                             workflow |-> WorkflowOf(frames, r)[1],
                             transcript |-> frames[r].given[1].transcript,
                             mermaid |-> frames[r].mermaid[1]])
  /\ frames' = [frames EXCEPT ![r] = [@ EXCEPT !.pc = "return"]]
  /\ UNCHANGED <<catalog, oldVars, taskVars, enrichVars, rateVars, execVars>>

\* lines 149-156 of run r: the dict it returns
RunReturn(r) ==
  /\ frames[r].pc = "return"
  /\ frames' = [frames EXCEPT ![r] =
                  [@ EXCEPT !.result = Some([workflow_id |-> "wf-" \o r,
                                             mermaid |-> frames[r].mermaid[1],
                                             task_count |-> Len(WorkflowOf(frames, r)[1].tasks)]),
                            !.pc = "done"]]
  /\ UNCHANGED <<store, catalog, oldVars, taskVars, enrichVars, rateVars, execVars>>

NextRuns ==
  \E r \in Runs :
     RunExtract(r) \/ RunValidate(r) \/ RunEnrich(r) \/ RunRender(r) \/ RunPersist(r) \/ RunReturn(r)

SpecRuns == InitRuns /\ [][NextRuns]_vars

\* what a run with the choices recorded in frame f does when it runs alone:
\* the workflow the extractor returns, and the one it holds after the enricher
AloneExtracted(f) == extractor_run(f.given[1].transcript, f.given[1].resp).value[1]
AloneEnriched(f) ==
  LET wf == AloneExtracted(f)
  IN  [wf EXCEPT !.tasks = enrich(@, CatalogRecs(wf.tasks), f.enrich_fail)]

\* C26: when two process_transcript runs are interleaved at their await
\* points on one Orchestrator, each run validates, enriches, renders and
\* persists only its own workflow object, and the diagram and the task_count
\* it returns are those it returns when it runs alone.
C26_RunIsolation ==
  \A r \in Runs :
     LET f == frames[r]
     IN  /\ Len(f.validated) >= 1 => f.validated[1] = AloneExtracted(f)
         /\ Len(f.validated) >= 2 => f.validated[2] = AloneEnriched(f)
         /\ f.pc \in {"validate", "enrich"} => f.workflow = Some(AloneExtracted(f))
         /\ f.pc \in {"render", "persist", "return", "done"} => f.workflow = Some(AloneEnriched(f))
         /\ f.mermaid # None => f.mermaid[1] = render_str(AloneEnriched(f))
         /\ \A k \in 1..Len(store) :
               store[k].workflow_id = "wf-" \o r =>
                  /\ store[k].workflow = AloneEnriched(f)
                  /\ store[k].mermaid = render_str(AloneEnriched(f))
                  /\ store[k].transcript = f.given[1].transcript
         /\ f.result # None =>
               /\ f.result[1].mermaid = render_str(AloneEnriched(f))
               /\ f.result[1].task_count = Len(AloneEnriched(f).tasks)

\* run r1 returned its result between the persist step and the return of run
\* r2, and the two runs hold different workflows and diagrams
C26_Witness ==
  /\ frames # <<>>
  /\ frames["r1"].pc = "done"
  /\ frames["r2"].pc = "return"
  /\ Len(store) = 2
  /\ store[1].workflow_id = "wf-r2"
  /\ frames["r1"].workflow # frames["r2"].workflow
  /\ frames["r1"].result[1].mermaid # frames["r2"].mermaid[1]

\* ------------------------------------------------------------ rate limiter
\* bounds: the largest RATE_LIMIT_PER_MIN, the number of requests, the time
MaxLimit == 2
MaxRequests == 4
MaxTime == 4

\* timedelta(minutes=1), in ticks of the clock
WindowTicks == 2

\* the X-API-Key header and the client host a request can carry
ApiKeys == {None, Some(""), Some("k1")}
ClientHosts == {None, Some("h1")}

\* enforce_rate_limit: the identifier of a request
IdentifierOf(api_key, client) ==
  IF api_key # None /\ api_key[1] # "" THEN api_key[1]
  ELSE IF client # None THEN client[1]
  ELSE "anonymous"

\* self._requests.get(identifier, [])
RequestsGet(reqs, identifier) == IF identifier \in DOMAIN reqs THEN reqs[identifier] ELSE <<>>

\* self._requests[identifier] = timestamps
RequestsSet(reqs, identifier, timestamps) ==
  [k \in DOMAIN reqs \cup {identifier} |-> IF k = identifier THEN timestamps ELSE reqs[k]]

\* a limiter that stores the time of a rejected request too
is_allowed_counting_rejected(reqs, identifier, time, lim) ==
  LET window_start == time - WindowTicks
      timestamps == SelectSeq(RequestsGet(reqs, identifier), LAMBDA ts : ts > window_start)
  IN  [allowed |-> Len(timestamps) < lim,
       requests |-> RequestsSet(reqs, identifier, Append(timestamps, time))]

\* _SlidingWindowRateLimiter.is_allowed: the answer and self._requests afterwards
is_allowed(reqs, identifier, time, lim) ==
  LET window_start == time - WindowTicks
      timestamps == SelectSeq(RequestsGet(reqs, identifier), LAMBDA ts : ts > window_start)
  IN  IF Len(timestamps) >= lim
      THEN [allowed |-> FALSE, requests |-> RequestsSet(reqs, identifier, timestamps)]
      ELSE [allowed |-> TRUE, requests |-> RequestsSet(reqs, identifier, Append(timestamps, time))]

InitRate ==
  /\ limit \in 0..MaxLimit
  /\ now = 0
  /\ requests = <<>>
  /\ rate_log = <<>>
  /\ TaskIdle
  /\ EnrichIdle
  /\ RunsIdle
  /\ ExecIdle
  /\ SchemaIdle
  /\ FallbackIdle
  /\ PipeIdle
  /\ CallsIdle

\* time passes
Tick ==
  /\ now < MaxTime
  /\ now' = now + 1
  /\ UNCHANGED <<limit, requests, rate_log, oldVars, taskVars, enrichVars, runVars, execVars>>

\* enforce_rate_limit(request): no limiter when the limit is not positive,
\* else HTTPException(429) when is_allowed says no
EnforceRateLimit ==
  /\ Len(rate_log) < MaxRequests
  /\ \E api_key \in ApiKeys, client \in ClientHosts :
       LET identifier == IdentifierOf(api_key, client)
           r == is_allowed(requests, identifier, now, limit)
       IN  IF limit > 0
           THEN /\ requests' = r.requests
                /\ rate_log' = Append(rate_log, [identifier |-> identifier, at |-> now,
                                                 status |-> IF r.allowed THEN 200 ELSE 429])
           ELSE /\ requests' = requests
                /\ rate_log' = Append(rate_log, [identifier |-> identifier, at |-> now,
                                                 status |-> 200])
  /\ UNCHANGED <<limit, now, oldVars, taskVars, enrichVars, runVars, execVars>>

NextRate == Tick \/ EnforceRateLimit

SpecRate == InitRate /\ [][NextRate]_vars

\* the requests of an identifier among the first n that were allowed at a
\* time later than lo and not later than hi
AllowedIn(identifier, n, lo, hi) ==
  {k \in 1..n : /\ rate_log[k].identifier = identifier
                /\ rate_log[k].status = 200
                /\ rate_log[k].at > lo
                /\ rate_log[k].at <= hi}

\* C27: with a positive limit L, at most L requests of an identifier are
\* allowed in any one-minute window; a request is allowed exactly when fewer
\* than L allowed requests of its own identifier lie within the last minute,
\* so the first L in a minute pass, every further one gets 429, requests of
\* other identifiers and rejected requests do not count, and requests pass
\* again once the earlier ones have left the window.
C27_SlidingWindow ==
  limit > 0 =>
    /\ \A k \in 1..Len(rate_log) : \A t \in 0..now :
          Cardinality(AllowedIn(rate_log[k].identifier, Len(rate_log), t - WindowTicks, t)) <= limit
    /\ \A k \in 1..Len(rate_log) :
          rate_log[k].status =
            IF Cardinality(AllowedIn(rate_log[k].identifier, k - 1,
                                     rate_log[k].at - WindowTicks, rate_log[k].at)) < limit
            THEN 200 ELSE 429

\* an identifier was allowed, then rejected inside the same window while
\* another identifier was allowed, and allowed again after the window
C27_Witness ==
  /\ limit > 0
  /\ \E i, j, k, o \in 1..Len(rate_log) :
        /\ i < j /\ j < k
        /\ rate_log[i].identifier = rate_log[j].identifier
        /\ rate_log[j].identifier = rate_log[k].identifier
        /\ rate_log[i].status = 200
        /\ rate_log[j].status = 429
        /\ rate_log[k].status = 200
        /\ rate_log[o].identifier # rate_log[i].identifier
        /\ rate_log[o].status = 200
        /\ rate_log[o].at = rate_log[j].at

\* ------------------------------------- ScriptExecutor.execute and cancel
\* the return codes of the child process: its own exits, the exit on
\* SIGTERM, the exit on SIGKILL
OwnReturnCodes == {0, 1}
SigTerm == 0 - 15
SigKill == 0 - 9

Running == Some([state |-> "running", returncode |-> None])
Exited(code) == Some([state |-> "exited", returncode |-> Some(code)])

\* self.process.poll() is None
Poll(p) == p # None /\ p[1].state = "running"

\* launch_script(async_mode=True) has stored the executor under its
\* execution id and started the thread that runs executor.execute
InitExec ==
  /\ exec_pc = "start"
  /\ cancel_pc = "idle"
  /\ status = "pending"
  /\ process = None
  /\ exit_code = None
  /\ exec_result = None
  /\ execution_history = <<>>
  /\ active_executions = TRUE
  /\ cancel_at = None
  /\ TaskIdle
  /\ EnrichIdle
  /\ RunsIdle
  /\ RateIdle
  /\ SchemaIdle
  /\ FallbackIdle
  /\ PipeIdle
  /\ CallsIdle

\* execute, line 237: self.status = ExecutionStatus.RUNNING
ExecStart ==
  /\ exec_pc = "start"
  /\ status' = "running"
  /\ exec_pc' = "popen"
  /\ UNCHANGED <<cancel_pc, process, exit_code, exec_result, execution_history,
                 active_executions, cancel_at, oldVars, taskVars, enrichVars, runVars, rateVars>>

\* execute, lines 238-255: subprocess.Popen(...) starts the child or raises
ExecPopen ==
  /\ exec_pc = "popen"
  /\ \/ process' = Running /\ exec_pc' = "wait"
     \/ process' = process /\ exec_pc' = "except"
  /\ UNCHANGED <<cancel_pc, status, exit_code, exec_result, execution_history,
                 active_executions, cancel_at, oldVars, taskVars, enrichVars, runVars, rateVars>>

\* the script comes to its end on its own
ProcessExits ==
  /\ Poll(process)
  /\ \E code \in OwnReturnCodes : process' = Exited(code)
  /\ UNCHANGED <<exec_pc, cancel_pc, status, exit_code, exec_result, execution_history,
                 active_executions, cancel_at, oldVars, taskVars, enrichVars, runVars, rateVars>>

\* execute, line 259: self.process.wait(timeout=self.timeout) returns
ExecWait ==
  /\ exec_pc = "wait"
  /\ process # None /\ process[1].state = "exited"
  /\ exit_code' = process[1].returncode
  /\ exec_pc' = "set_status"
  /\ UNCHANGED <<cancel_pc, status, process, exec_result, execution_history,
                 active_executions, cancel_at, oldVars, taskVars, enrichVars, runVars, rateVars>>

\* execute, lines 269-272: the wait raises TimeoutExpired; kill and wait
ExecTimeout ==
  /\ exec_pc = "wait"
  /\ Poll(process)
  /\ process' = Exited(SigKill)
  /\ exec_pc' = "timeout_status"
  /\ UNCHANGED <<cancel_pc, status, exit_code, exec_result, execution_history,
                 active_executions, cancel_at, oldVars, taskVars, enrichVars, runVars, rateVars>>

\* execute, lines 273-274: self.status = TIMEOUT; exit_code = -1
ExecTimeoutStatus ==
  /\ exec_pc = "timeout_status"
  /\ status' = "timeout"
  /\ exit_code' = Some(0 - 1)
  /\ exec_pc' = "build"
  /\ UNCHANGED <<cancel_pc, process, exec_result, execution_history,
                 active_executions, cancel_at, oldVars, taskVars, enrichVars, runVars, rateVars>>

\* execute, lines 262-267: after the sleep, COMPLETED for exit code 0, else FAILED
ExecSetStatus ==
  /\ exec_pc = "set_status"
  /\ status' = IF exit_code[1] = 0 THEN "completed" ELSE "failed"
  /\ exec_pc' = "build"
  /\ UNCHANGED <<cancel_pc, process, exit_code, exec_result, execution_history,
                 active_executions, cancel_at, oldVars, taskVars, enrichVars, runVars, rateVars>>

\* execute, lines 276-301: ExecutionResult(status=self.status, ...) is returned
ExecBuild ==
  /\ exec_pc = "build"
  /\ exec_result' = Some([status |-> status, exit_code |-> exit_code[1]])
  /\ exec_pc' = "record"
  /\ UNCHANGED <<cancel_pc, status, process, exit_code, execution_history,
                 active_executions, cancel_at, oldVars, taskVars, enrichVars, runVars, rateVars>>

\* execute, lines 303-314: the except branch
ExecExcept ==
  /\ exec_pc = "except"
  /\ status' = "failed"
  /\ exec_result' = Some([status |-> "failed", exit_code |-> 0 - 1])
  /\ exec_pc' = "record"
  /\ UNCHANGED <<cancel_pc, process, exit_code, execution_history,
                 active_executions, cancel_at, oldVars, taskVars, enrichVars, runVars, rateVars>>

\* execute_async, launcher_engine.py lines 157-160: the result goes to the
\* history and the execution id leaves active_executions
ExecRecord ==
  /\ exec_pc = "record"
  /\ execution_history' = Append(execution_history, exec_result[1].status)
  /\ active_executions' = FALSE
  /\ exec_pc' = "done"
  /\ UNCHANGED <<cancel_pc, status, process, exit_code, exec_result, cancel_at,
                 oldVars, taskVars, enrichVars, runVars, rateVars>>

\* cancel_execution, lines 191-193, and cancel, line 318: the test
\* "self.process and self.process.poll() is None"
CancelCheck ==
  /\ cancel_pc = "idle"
  /\ IF active_executions /\ Poll(process)
     THEN /\ cancel_pc' = "terminate"
          /\ cancel_at' = Some(exec_pc)
     ELSE /\ cancel_pc' = "done"
          /\ cancel_at' = cancel_at
  /\ UNCHANGED <<exec_pc, status, process, exit_code, exec_result, execution_history,
                 active_executions, oldVars, taskVars, enrichVars, runVars, rateVars>>

\* cancel, line 320: self.process.terminate(); the child ends on the signal,
\* ends with a code of its own handler, or goes on running
CancelTerminate ==
  /\ cancel_pc = "terminate"
  /\ IF Poll(process)
     THEN \/ process' = Exited(SigTerm)
          \/ \E code \in OwnReturnCodes : process' = Exited(code)
          \/ process' = process
     ELSE process' = process
  /\ cancel_pc' = "wait"
  /\ UNCHANGED <<exec_pc, status, exit_code, exec_result, execution_history,
                 active_executions, cancel_at, oldVars, taskVars, enrichVars, runVars, rateVars>>

\* cancel, lines 321-325: wait(timeout=5), on TimeoutExpired kill and wait
CancelWait ==
  /\ cancel_pc = "wait"
  /\ process' = IF Poll(process) THEN Exited(SigKill) ELSE process
  /\ cancel_pc' = "set_status"
  /\ UNCHANGED <<exec_pc, status, exit_code, exec_result, execution_history,
                 active_executions, cancel_at, oldVars, taskVars, enrichVars, runVars, rateVars>>

\* cancel, lines 327-333: self.status = ExecutionStatus.CANCELLED
CancelSetStatus ==
  /\ cancel_pc = "set_status"
  /\ status' = "cancelled"
  /\ cancel_pc' = "done"
  /\ UNCHANGED <<exec_pc, process, exit_code, exec_result, execution_history,
                 active_executions, cancel_at, oldVars, taskVars, enrichVars, runVars, rateVars>>

NextExec ==
  \/ ExecStart \/ ExecPopen \/ ProcessExits \/ ExecWait \/ ExecTimeout \/ ExecTimeoutStatus
  \/ ExecSetStatus \/ ExecBuild \/ ExecExcept \/ ExecRecord
  \/ CancelCheck \/ CancelTerminate \/ CancelWait \/ CancelSetStatus

SpecExec == InitExec /\ [][NextExec]_vars

\* C30 (as claimed): when cancel is invoked on an execution whose process is
\* still running while execute is blocked waiting on it in another thread,
\* then in every interleaving the final status of the executor and the
\* status of the ExecutionResult that execute returns and the engine
\* records in its history is CANCELLED.
C30_CancelledOutcome ==
  (cancel_at = Some("wait") /\ cancel_pc = "done" /\ exec_pc = "done") =>
     /\ status = "cancelled"
     /\ exec_result[1].status = "cancelled"
     /\ execution_history = <<"cancelled">>

====
